---- MODULE Spec2Model ----
(***************************************************************************)
(* unified-llm: streaming normalisation of the OpenAI-compatible and the   *)
(* Bedrock adapters (BaseProvider.chat_stream and the adapters'            *)
(* _parse_stream_response), the tool-call accumulators of the streaming    *)
(* examples, and ToolExecutor.execute.                                     *)
(*                                                                         *)
(* Text is a sequence of one-character strings, so that Python's           *)
(* substring test (tag in full_delta) is computed and not assumed.         *)
(***************************************************************************)
EXTENDS Integers, Sequences, FiniteSets, TLC

(***************************************************************************)
(* Bounds                                                                  *)
(***************************************************************************)
\* longest event sequence one transport delivers to a chat_stream call
MaxEvents == 3
\* longest event sequence of each of the two concurrently consumed streams
MaxInterleaved == 2
\* number of tool-call deltas fed to the example accumulators
MaxDeltas == 3
\* tool calls in one execute_all batch
MaxBatch == 2
\* tool calls in one raw list handed to _standardize_tool_calls
MaxCalls == 2
\* messages in one list handed to chat or chat_stream
MaxMessages == 2
\* rounds of tool calls within one chat call
MaxRounds == 2
\* lines of one server-sent-event response
MaxLines == 3

(***************************************************************************)
(* Python values                                                           *)
(***************************************************************************)
\* None where the other values are atoms (ids, names, JSON strings)
None == "None"
\* None where the other values are texts (sequences of characters)
NoneText == <<"None">>

\* dict.get(key, default)
Get(d, k, default) == IF k \in DOMAIN d THEN d[k] ELSE default

\* dict.update(other): overwrite key by key
Update(d, other) ==
    [k \in (DOMAIN d) \cup (DOMAIN other) |->
        IF k \in DOMAIN other THEN other[k] ELSE d[k]]

\* needle in haystack, for str
Contains(needle, haystack) ==
    \E i \in 1..(Len(haystack) - Len(needle) + 1) :
        SubSeq(haystack, i, i + Len(needle) - 1) = needle

\* any(tag in text for tag in tags)
ContainsAny(tags, text) == \E tag \in tags : Contains(tag, text)

Last(s) == s[Len(s)]

(***************************************************************************)
(* Texts used as stream content                                            *)
(***************************************************************************)
W_think == <<"t","h","i","n","k">>
W_thinking == <<"t","h","i","n","k","i","n","g">>
W_reasoning == <<"r","e","a","s","o","n","i","n","g">>
W_analysis == <<"a","n","a","l","y","s","i","s">>

OpenTag(w) == <<"<">> \o w \o <<">">>
CloseTag(w) == <<"<","/">> \o w \o <<">">>

\* provider.py:456
opening_tags == {OpenTag(W_think), OpenTag(W_thinking), OpenTag(W_reasoning), OpenTag(W_analysis)}
\* provider.py:462
closing_tags == {CloseTag(W_think), CloseTag(W_thinking), CloseTag(W_reasoning), CloseTag(W_analysis)}

T_hi == <<"h","i">>
T_x == <<"x">>
T_r == <<"r">>
T_t == <<"t">>
T_reasoning_here == <<"r","e","a","s","o","n","i","n","g"," ","h","e","r","e">>
T_rest_of_answer == <<"r","e","s","t"," ","o","f"," ","a","n","s","w","e","r">>
\* "<thi", "nk>reasoning here</thi", "nk>rest of answer"
T_split1 == <<"<","t","h","i">>
T_split2 == <<"n","k",">">> \o T_reasoning_here \o <<"<","/","t","h","i">>
T_split3 == <<"n","k",">">> \o T_rest_of_answer
\* "<think>x</think>"
T_whole_block == OpenTag(W_think) \o T_x \o CloseTag(W_think)
\* "a<analysis>"
T_mid_open == <<"a">> \o OpenTag(W_analysis)

(***************************************************************************)
(* OpenAILike._standardize_tool_calls                                      *)
(***************************************************************************)
\* A tool call is a dict: a function whose domain is the set of its keys.
RECURSIVE OpenAILike_standardize_loop(_, _)
OpenAILike_standardize_loop(raw_tool_calls, standardized) ==
    IF raw_tool_calls = <<>>
    THEN [raised |-> FALSE, exc |-> None, value |-> standardized]
    ELSE LET tool_call == Head(raw_tool_calls) IN
         IF "function" \in DOMAIN tool_call
         THEN \* tool_call["id"], tool_call["function"]["name"], ["arguments"]
              IF \/ "id" \notin DOMAIN tool_call
                 \/ "name" \notin DOMAIN tool_call["function"]
                 \/ "arguments" \notin DOMAIN tool_call["function"]
              THEN [raised |-> TRUE, exc |-> "KeyError", value |-> <<>>]
              ELSE OpenAILike_standardize_loop(Tail(raw_tool_calls),
                       Append(standardized,
                              [id |-> tool_call["id"],
                               name |-> tool_call["function"]["name"],
                               arguments |-> tool_call["function"]["arguments"]]))
         ELSE \* already standardized: pass through
              OpenAILike_standardize_loop(Tail(raw_tool_calls),
                                          Append(standardized, tool_call))

OpenAILike_standardize_tool_calls(raw_tool_calls) ==
    OpenAILike_standardize_loop(raw_tool_calls, <<>>)

(***************************************************************************)
(* ChatStreamResponse                                                      *)
(***************************************************************************)
\* tool_calls = <<>> stands for None: both adapters store
\* "tool_calls if tool_calls else None", so an empty list never occurs.
ChatStreamResponse(delta, reasoning_delta, is_reasoning_complete, is_complete, tool_calls, finish_reason) ==
    [delta |-> delta,
     reasoning_delta |-> reasoning_delta,
     is_reasoning_complete |-> is_reasoning_complete,
     is_complete |-> is_complete,
     tool_calls |-> tool_calls,
     finish_reason |-> finish_reason]

\* the result of a call that returns a chunk, and of one that raises
Returned(chunk, mode) ==
    [raised |-> FALSE, exc |-> None, chunk |-> chunk, in_reasoning_mode |-> mode]
Raised(exc, mode) ==
    [raised |-> TRUE, exc |-> exc,
     chunk |-> ChatStreamResponse(<<>>, NoneText, FALSE, FALSE, <<>>, None),
     in_reasoning_mode |-> mode]

(***************************************************************************)
(* OpenAILike._parse_stream_response                                       *)
(***************************************************************************)
\* An OpenAI stream event:
\*   choices            the event has a non-empty choices list
\*   content            choices[0].delta.content (NoneText: absent or null)
\*   reasoning_content  choices[0].delta.reasoning_content
\*   thinking           choices[0].delta.thinking
\*   tool_calls         choices[0].delta.tool_calls (<<>>: absent)
\*   finish_reason      choices[0].finish_reason (None: absent or null)

\* delta.get('reasoning_content'), else delta.get('thinking')
NativeReasoningDelta(chunk) ==
    IF chunk.reasoning_content # NoneText
    THEN chunk.reasoning_content
    ELSE chunk.thinking

\* mutant: only the <think> pair is recognised
ReasoningTransition_thinkOnly(mode, full_delta) ==
    LET afterOpening == IF Contains(OpenTag(W_think), full_delta) THEN TRUE ELSE mode
        closing == Contains(CloseTag(W_think), full_delta)
    IN  [in_reasoning_mode |-> IF closing THEN FALSE ELSE afterOpening,
         is_reasoning_complete |-> closing]

\* mutant: the closing-tag check runs before the opening-tag check
ReasoningTransition_closingFirst(mode, full_delta) ==
    LET closing == ContainsAny(closing_tags, full_delta)
        afterClosing == IF closing THEN FALSE ELSE mode
    IN  [in_reasoning_mode |->
             IF ContainsAny(opening_tags, full_delta) THEN TRUE ELSE afterClosing,
         is_reasoning_complete |-> closing]

\* the opening-tag check, then the closing-tag check, on self._in_reasoning_mode
ReasoningTransition(mode, full_delta) ==
    LET afterOpening == IF ContainsAny(opening_tags, full_delta) THEN TRUE ELSE mode
        closing == ContainsAny(closing_tags, full_delta)
    IN  [in_reasoning_mode |-> IF closing THEN FALSE ELSE afterOpening,
         is_reasoning_complete |-> closing]

\* mutant: the native reasoning delta does not switch pattern detection off
PatternDetectionApplies_ignoreNative(content_delta, reasoning_delta) ==
    content_delta # <<>>

\* pattern-based detection runs only without a native reasoning delta
PatternDetectionApplies(content_delta, reasoning_delta) ==
    content_delta # <<>> /\ reasoning_delta = NoneText

\* mutant: content_delta is not cleared when the delta is reasoning
RoutedContent_kept(toReasoning, content_delta) == content_delta

\* "Route content based on current reasoning state": in reasoning mode the
\* delta moves to reasoning_delta and content_delta becomes ""
RoutedContent(toReasoning, content_delta) == IF toReasoning THEN <<>> ELSE content_delta

OpenAILike_parse_stream_response(chunk, enable, mode) ==
    IF ~chunk.choices
    THEN Returned(ChatStreamResponse(<<>>, NoneText, FALSE, FALSE, <<>>, None), mode)
    ELSE
    LET content_delta == IF chunk.content = NoneText THEN <<>> ELSE chunk.content
        std == OpenAILike_standardize_tool_calls(chunk.tool_calls)
        native == IF enable THEN NativeReasoningDelta(chunk) ELSE NoneText
        detect == enable /\ PatternDetectionApplies(content_delta, native)
        tr == IF detect
              THEN ReasoningTransition(mode, content_delta)
              ELSE [in_reasoning_mode |-> mode, is_reasoning_complete |-> FALSE]
        toReasoning == detect /\ tr.in_reasoning_mode
        is_complete == chunk.finish_reason # None
    IN  IF std.raised
        THEN Raised(std.exc, mode)
        ELSE Returned(
                 ChatStreamResponse(
                     RoutedContent(toReasoning, content_delta),
                     IF toReasoning THEN content_delta ELSE native,
                     tr.is_reasoning_complete,
                     is_complete,
                     std.value,
                     chunk.finish_reason),
                 tr.in_reasoning_mode)

(***************************************************************************)
(* Bedrock._parse_stream_response                                          *)
(***************************************************************************)
\* A ConverseStream event carries one key; kind is that key. For a
\* contentBlockDelta, deltaKind is the key of its delta and text the value.
Bedrock_parse_stream_response(chunk, enable, mode) ==
    LET kind == chunk.kind
        isDelta == kind = "contentBlockDelta"
        content_delta == IF isDelta /\ chunk.deltaKind = "text" THEN chunk.text ELSE <<>>
        reasoning_delta == IF isDelta /\ chunk.deltaKind = "reasoningContent"
                           THEN chunk.text ELSE NoneText
        is_finished == kind = "messageStop"
        finish_reason == IF is_finished THEN chunk.stopReason ELSE None
    IN  IF isDelta /\ chunk.deltaKind = "toolUse"
        THEN \* chunk['contentBlockStart'] on a contentBlockDelta event
             Raised("KeyError", mode)
        ELSE Returned(
                 ChatStreamResponse(content_delta, reasoning_delta, FALSE,
                                    is_finished, <<>>, finish_reason),
                 mode)

\* dynamic dispatch of self._parse_stream_response
parse_stream_response(p, chunk, enable, mode) ==
    IF p = "openai_like"
    THEN OpenAILike_parse_stream_response(chunk, enable, mode)
    ELSE Bedrock_parse_stream_response(chunk, enable, mode)

(***************************************************************************)
(* Stream events the transports deliver                                    *)
(***************************************************************************)
OpenAIEvent(content, reasoning_content, thinking, tool_calls, finish_reason) ==
    [choices |-> TRUE, content |-> content,
     reasoning_content |-> reasoning_content, thinking |-> thinking,
     tool_calls |-> tool_calls, finish_reason |-> finish_reason]

ContentEvent(text) == OpenAIEvent(text, NoneText, NoneText, <<>>, None)

\* an event without choices, such as the usage event that follows the
\* finish_reason event
UsageEvent ==
    [choices |-> FALSE, content |-> NoneText,
     reasoning_content |-> NoneText, thinking |-> NoneText,
     tool_calls |-> <<>>, finish_reason |-> None]

FinishEvent == OpenAIEvent(NoneText, NoneText, NoneText, <<>>, "stop")

\* the first fragment of a streamed tool call, and a continuation fragment
ToolCallStart ==
    [index |-> 0, id |-> "call_1", type |-> "function",
     function |-> [name |-> "calculate", arguments |-> ""]]
ToolCallContinuation ==
    [index |-> 0, function |-> [arguments |-> "{\"expression\": \"25*4+10\"}"]]

ContentTexts ==
    {T_hi, OpenTag(W_think), CloseTag(W_think), T_whole_block, T_mid_open,
     T_split1, T_split2, T_split3}

OpenAIEvents ==
    {ContentEvent(t) : t \in ContentTexts}
    \cup {OpenAIEvent(OpenTag(W_think), T_r, T_t, <<>>, None),
          OpenAIEvent(CloseTag(W_think), NoneText, T_t, <<>>, None),
          OpenAIEvent(NoneText, NoneText, NoneText, <<ToolCallStart>>, None),
          OpenAIEvent(NoneText, NoneText, NoneText, <<ToolCallContinuation>>, None),
          FinishEvent, UsageEvent}

BedrockEvent(kind, deltaKind, text, stopReason) ==
    [kind |-> kind, deltaKind |-> deltaKind, text |-> text, stopReason |-> stopReason]

BedrockEvents ==
    {BedrockEvent("messageStart", None, <<>>, None),
     BedrockEvent("contentBlockStart", None, <<>>, None),
     BedrockEvent("contentBlockDelta", "text", T_hi, None),
     BedrockEvent("contentBlockDelta", "toolUse", <<>>, None),
     BedrockEvent("contentBlockDelta", "reasoningContent", T_r, None),
     BedrockEvent("contentBlockStop", None, <<>>, None),
     BedrockEvent("messageStop", None, <<>>, "end_turn"),
     BedrockEvent("metadata", None, <<>>, None)}

\* the event that carries the provider's stop marker
IsStopMarker(p, chunk) ==
    IF p = "openai_like"
    THEN chunk.choices /\ chunk.finish_reason # None
    ELSE chunk.kind = "messageStop"

Providers == {"openai_like", "bedrock"}
ProviderEvents(p) == IF p = "openai_like" THEN OpenAIEvents ELSE BedrockEvents

\* the events of the two streams that are consumed interleaved
InterleavedEvents ==
    {ContentEvent(T_hi), ContentEvent(OpenTag(W_think)), ContentEvent(CloseTag(W_think))}

(***************************************************************************)
(* State                                                                   *)
(***************************************************************************)
StreamIds == {1, 2}

VARIABLES
    in_reasoning_mode,  \* OpenAILike._in_reasoning_mode, one per adapter instance
    pc,                 \* per chat_stream generator: idle, running, done, raised
    provider,           \* the adapter class the generator belongs to
    enable_reasoning,   \* the enable_reasoning argument of the call
    transport,          \* the events _execute_stream_request has delivered so far
    yielded,            \* the chunks the generator has yielded, in order
    stream_messages,    \* the messages argument of the call
    requested,          \* whether the call reached _prepare_request and _execute_stream_request
    transport_failure,  \* the exception the transport raised under the call, None if none
    stream_exc          \* the exception that left the generator, None if none

streamVars ==
    <<in_reasoning_mode, pc, provider, enable_reasoning, transport, yielded,
      stream_messages, requested, transport_failure, stream_exc>>

VARIABLES
    tool_deltas,            \* the tool_calls lists of the chunks the examples' loops have seen
    accumulated_tool_calls, \* demo_streaming_with_tools: list of accumulated tool calls
    tool_call_states,       \* demo_progressive_tool_calls: dict from call id to tool call
    complete_tool_calls     \* demo_progressive_tool_calls: the tool calls found complete

accumVars == <<tool_deltas, accumulated_tool_calls, tool_call_states, complete_tool_calls>>

VARIABLES
    exec_call,       \* the tool_call argument of the last ToolExecutor.execute
    exec_behaviour,  \* what the registered function did in that call
    exec_result      \* what execute returned or raised

execVars == <<exec_call, exec_behaviour, exec_result>>

VARIABLES
    batch_calls,       \* the tool_calls argument of the last ToolExecutor.execute_all
    batch_behaviours,  \* what the registered function did for each of them
    batch_result       \* what execute_all returned or raised

batchVars == <<batch_calls, batch_behaviours, batch_result>>

VARIABLES
    validate_call,     \* the tool_call argument of the last validate_tool_call
    validate_result    \* what validate_tool_call returned or raised

validateVars == <<validate_call, validate_result>>

VARIABLES
    std_provider,  \* the adapter class of the last _standardize_tool_calls
    std_input,     \* its raw_tool_calls argument
    std_result     \* what it returned or raised

stdVars == <<std_provider, std_input, std_result>>

VARIABLES
    extract_response,  \* the response argument of the last _extract_reasoning_content
    extract_result     \* the (final_content, reasoning_content) it returned

extractVars == <<extract_response, extract_result>>

VARIABLES
    parse_provider,  \* the adapter class of the last _parse_response
    parse_enable,    \* its enable_reasoning argument
    parse_response,  \* its response argument
    parse_result     \* the ChatResponse it returned, or what it raised

parseVars == <<parse_provider, parse_enable, parse_response, parse_result>>

VARIABLES
    chat_pc,        \* BaseProvider.chat: idle, awaiting (a provider request is out),
                    \* returned, raised
    chat_messages,  \* the messages argument of the caller's chat call
    caller_list,    \* what the caller's list object holds now
    requests,       \* the messages of every request handed to _execute_request, in order
    responses,      \* the parsed responses to them, in order
    invoked,        \* the registry functions called, in order
    chat_result,    \* the ChatResponse chat returned
    chat_exc        \* the exception chat raised, None if none

chatVars ==
    <<chat_pc, chat_messages, caller_list, requests, responses, invoked, chat_result, chat_exc>>

VARIABLES
    sse_pc,      \* OpenAILike._execute_stream_request: idle, reading, ended
    sse_lines,   \* the lines response.iter_lines() has produced so far
    sse_events   \* the chunks the generator has yielded, in order

sseVars == <<sse_pc, sse_lines, sse_events>>

utilVars == <<batchVars, validateVars, stdVars, extractVars, parseVars, chatVars, sseVars>>

vars == <<streamVars, accumVars, execVars, utilVars>>

(***************************************************************************)
(* utils.validate_messages                                                 *)
(***************************************************************************)
\* A message is [is_dict, fields], fields the items of the dict. A content
\* is [type, text, blocks]: type str, list or NoneType; a content block is
\* [is_dict, fields] too.
StrContent(text) == [type |-> "str", text |-> text, blocks |-> <<>>]
ListOfBlocks(blocks) == [type |-> "list", text |-> <<>>, blocks |-> blocks]
NoneContent == [type |-> "NoneType", text |-> <<>>, blocks |-> <<>>]
Dict(fields) == [is_dict |-> TRUE, fields |-> fields]
NotADict == [is_dict |-> FALSE, fields |-> <<>>]

valid_roles == {"system", "user", "assistant", "tool"}

\* the checks on one content block: "ok" or the problem found
validate_block(block) ==
    IF ~block.is_dict THEN "content block must be a dictionary"
    ELSE IF "type" \notin DOMAIN block.fields THEN "content block missing 'type' field"
    ELSE IF block.fields["type"] = "text"
         THEN IF "text" \notin DOMAIN block.fields
              THEN "content block of type 'text' missing 'text' field" ELSE "ok"
    ELSE IF block.fields["type"] = "image"
         THEN IF "image_data" \notin DOMAIN block.fields
              THEN "content block of type 'image' missing 'image_data' field" ELSE "ok"
    ELSE "content block has unsupported type"

\* the body of "for i, message in enumerate(messages)": "ok" or the problem
validate_message(message) ==
    IF ~message.is_dict THEN "must be a dictionary"
    ELSE IF "role" \notin DOMAIN message.fields THEN "missing 'role' field"
    ELSE IF "content" \notin DOMAIN message.fields THEN "missing 'content' field"
    ELSE IF message.fields["role"] \notin valid_roles THEN "has invalid role"
    ELSE LET content == message.fields["content"]
             bad == {j \in 1..Len(content.blocks) : validate_block(content.blocks[j]) # "ok"}
         IN  IF content.type = "str"
             THEN \* simple text content: continue
                  "ok"
             ELSE IF content.type # "list"
             THEN "content must be string or list of content blocks"
             ELSE IF bad # {}
             THEN validate_block(content.blocks[CHOOSE j \in bad : \A k \in bad : j <= k])
             ELSE IF message.fields["role"] = "tool"
                     /\ "tool_call_id" \notin DOMAIN message.fields
             THEN "with role 'tool' missing 'tool_call_id' field"
             ELSE "ok"

\* messages is [is_list, items]; the result says whether ValidationError is
\* raised and with which message
validate_messages(messages) ==
    IF ~messages.is_list
    THEN [raised |-> TRUE, exc |-> "ValidationError", value |-> "Messages must be a list"]
    ELSE IF messages.items = <<>>
    THEN [raised |-> TRUE, exc |-> "ValidationError",
          value |-> "Messages list cannot be empty"]
    ELSE LET bad == {i \in 1..Len(messages.items) :
                        validate_message(messages.items[i]) # "ok"}
         IN  IF bad = {}
             THEN [raised |-> FALSE, exc |-> None, value |-> "ok"]
             ELSE [raised |-> TRUE, exc |-> "ValidationError",
                   value |-> validate_message(
                                 messages.items[CHOOSE i \in bad : \A k \in bad : i <= k])]

MessageList(items) == [is_list |-> TRUE, items |-> items]
NotAList == [is_list |-> FALSE, items |-> <<>>]

\* the messages the lists handed to chat and chat_stream are made of
UserMessage == Dict([role |-> "user", content |-> StrContent(T_hi)])
TextBlock == Dict([type |-> "text", text |-> T_hi])
MessageValues ==
    {UserMessage,
     Dict([role |-> "assistant", content |-> StrContent(T_x)]),
     Dict([role |-> "tool", content |-> StrContent(T_r), tool_call_id |-> "call_1"]),
     Dict([role |-> "tool", content |-> StrContent(T_r)]),
     Dict([role |-> "tool", content |-> ListOfBlocks(<<TextBlock>>), tool_call_id |-> "call_1"]),
     Dict([role |-> "tool", content |-> ListOfBlocks(<<TextBlock>>)]),
     Dict([role |-> "user", content |-> ListOfBlocks(<<TextBlock, Dict([type |-> "image"])>>)]),
     Dict([role |-> "user", content |-> NoneContent]),
     Dict([role |-> "function", content |-> StrContent(T_hi)]),
     Dict([role |-> "user"]),
     Dict([content |-> StrContent(T_hi)]),
     NotADict}

MessageLists ==
    {NotAList} \cup {MessageList(l) : l \in UNION {[1..n -> MessageValues] : n \in 0..MaxMessages}}

(***************************************************************************)
(* BaseProvider.chat_stream                                                *)
(***************************************************************************)
\* mutant: the loop breaks after a chunk that signals termination
LoopContinues_breakOnComplete(parsed_chunk) == ~parsed_chunk.is_complete

\* the for loop has no break: it goes on after every yield
LoopContinues(parsed_chunk) == TRUE

\* mutant: the request is prepared and executed whatever validation said
ReachesRequest_unconditionally(validation) == TRUE

\* chat and chat_stream call validate_messages first: the lines that prepare
\* and execute the request are reached only when it returned
ReachesRequest(validation) == ~validation.raised

\* a new chat_stream call on the adapter, made when the adapter has no call
\* in flight or the previous call has run to its end, together with the
\* first advance of the generator up to the request (the body of a
\* generator runs from the first next()); validate_messages and
\* _prepare_request do not touch self._in_reasoning_mode
ChatStream(s, p, enable, messages) ==
    /\ pc[s] \in {"idle", "done", "rejected"}
    /\ LET validation == validate_messages(messages)
       IN  /\ pc' = [pc EXCEPT ![s] = IF validation.raised THEN "rejected" ELSE "running"]
           /\ stream_exc' = [stream_exc EXCEPT ![s] = validation.exc]
           /\ requested' = [requested EXCEPT ![s] = ReachesRequest(validation)]
    /\ stream_messages' = [stream_messages EXCEPT ![s] = messages]
    /\ provider' = [provider EXCEPT ![s] = p]
    /\ enable_reasoning' = [enable_reasoning EXCEPT ![s] = enable]
    /\ transport' = [transport EXCEPT ![s] = <<>>]
    /\ yielded' = [yielded EXCEPT ![s] = <<>>]
    /\ transport_failure' = [transport_failure EXCEPT ![s] = None]
    /\ UNCHANGED <<in_reasoning_mode, accumVars, execVars, utilVars>>

\* one iteration of the for loop: the transport delivers the event chunk,
\* the loop parses it and yields the parsed chunk
NextChunk(s, chunk) ==
    /\ pc[s] = "running"
    /\ LET r == parse_stream_response(provider[s], chunk, enable_reasoning[s],
                                      in_reasoning_mode)
       IN  /\ transport' = [transport EXCEPT ![s] = Append(transport[s], chunk)]
           /\ in_reasoning_mode' = r.in_reasoning_mode
           /\ IF r.raised
              THEN /\ pc' = [pc EXCEPT ![s] = "raised"]
                   /\ stream_exc' = [stream_exc EXCEPT ![s] = r.exc]
                   /\ UNCHANGED yielded
              ELSE /\ yielded' = [yielded EXCEPT ![s] = Append(yielded[s], r.chunk)]
                   /\ pc' = [pc EXCEPT ![s] =
                                IF LoopContinues(r.chunk) THEN "running" ELSE "done"]
                   /\ UNCHANGED stream_exc
    /\ UNCHANGED <<provider, enable_reasoning, stream_messages, requested, transport_failure,
                   accumVars, execVars, utilVars>>

\* the exception classes a failing transport raises while the events are
\* read: httpx raises subclasses of httpx.RequestError from iter_lines, the
\* botocore event stream raises EventStreamError (a ClientError) or a
\* connection error
httpx_RequestError == {"httpx.ReadTimeout", "httpx.ReadError", "httpx.RemoteProtocolError"}
botocore_ClientError == {"botocore.EventStreamError"}
TransportErrors(p) ==
    IF p = "openai_like"
    THEN httpx_RequestError
    ELSE botocore_ClientError \cup {"botocore.ReadTimeoutError", "botocore.ConnectionClosedError"}

\* mutant: OpenAILike catches timeouts only
Caught_timeoutsOnly(p, exc) ==
    IF p = "openai_like" THEN exc = "httpx.ReadTimeout" ELSE TRUE

\* the except clauses around the event loop of _execute_stream_request:
\* httpx.RequestError in OpenAILike, ClientError and Exception in Bedrock
Caught(p, exc) ==
    IF p = "openai_like" THEN exc \in httpx_RequestError ELSE TRUE

\* the exception that leaves _execute_stream_request when the transport
\* raises exc: every except clause raises ProviderError
execute_stream_request_raises(p, exc) ==
    IF Caught(p, exc) THEN "ProviderError" ELSE exc

\* the transport fails while the for loop waits for the next event: the
\* exception leaves chat_stream, which has no handler of its own
TransportFails(s, exc) ==
    /\ pc[s] = "running"
    /\ pc' = [pc EXCEPT ![s] = "failed"]
    /\ transport_failure' = [transport_failure EXCEPT ![s] = exc]
    /\ stream_exc' = [stream_exc EXCEPT ![s] = execute_stream_request_raises(provider[s], exc)]
    /\ UNCHANGED <<in_reasoning_mode, provider, enable_reasoning, transport, yielded,
                   stream_messages, requested, accumVars, execVars, utilVars>>

\* the transport's event sequence is exhausted: the generator returns
StreamEnd(s) ==
    /\ pc[s] = "running"
    /\ pc' = [pc EXCEPT ![s] = "done"]
    /\ UNCHANGED <<in_reasoning_mode, provider, enable_reasoning, transport, yielded,
                   stream_messages, requested, transport_failure, stream_exc,
                   accumVars, execVars, utilVars>>

\* the OpenAI-compatible server answers with a status other than 200: the
\* branch reads response.text of a streamed response that has not been read,
\* which raises httpx.ResponseNotRead, not a RequestError, before the
\* ProviderError of the branch is built
StatusError(s) ==
    /\ pc[s] = "running"
    /\ provider[s] = "openai_like"
    /\ transport[s] = <<>>
    /\ pc' = [pc EXCEPT ![s] = "failed"]
    /\ stream_exc' = [stream_exc EXCEPT ![s] =
                          execute_stream_request_raises(provider[s], "httpx.ResponseNotRead")]
    /\ UNCHANGED <<in_reasoning_mode, provider, enable_reasoning, transport, yielded,
                   stream_messages, requested, transport_failure, accumVars, execVars,
                   utilVars>>

(***************************************************************************)
(* The tool-call accumulators of examples/openai_like/06_streaming_with_   *)
(* tools.py                                                                *)
(***************************************************************************)
\* demo_streaming_with_tools, the body of "for tool_call in chunk.tool_calls"
StreamingCollect(accumulated, tool_call) ==
    LET matches == {i \in 1..Len(accumulated) :
                        Get(accumulated[i], "id", None) = Get(tool_call, "id", None)}
    IN  IF matches # {} /\ DOMAIN accumulated[CHOOSE i \in matches : \A j \in matches : i <= j] # {}
        THEN LET i == CHOOSE i \in matches : \A j \in matches : i <= j
             IN  [accumulated EXCEPT ![i] = Update(accumulated[i], tool_call)]
        ELSE Append(accumulated, tool_call)

RECURSIVE StreamingCollectAll(_, _)
StreamingCollectAll(accumulated, tool_calls) ==
    IF tool_calls = <<>> THEN accumulated
    ELSE StreamingCollectAll(StreamingCollect(accumulated, Head(tool_calls)),
                             Tail(tool_calls))

\* all(key in current_state for key in ['id', 'name', 'arguments'])
IsComplete(current_state) ==
    \A key \in {"id", "name", "arguments"} : key \in DOMAIN current_state

\* demo_progressive_tool_calls, the body of "for tool_call in chunk.tool_calls";
\* acc is [states, complete]
ProgressiveCollect(acc, tool_call) ==
    LET call_id == Get(tool_call, "id", "unknown")
        started == IF call_id \in DOMAIN acc.states
                   THEN acc.states
                   ELSE [k \in (DOMAIN acc.states) \cup {call_id} |->
                            IF k = call_id THEN <<>> ELSE acc.states[k]]
        states == [started EXCEPT ![call_id] = Update(started[call_id], tool_call)]
        current_state == states[call_id]
        listed == \E i \in 1..Len(acc.complete) : acc.complete[i]["id"] = call_id
    IN  [states |-> states,
         complete |-> IF IsComplete(current_state) /\ ~listed
                      THEN Append(acc.complete, current_state)
                      ELSE acc.complete]

RECURSIVE ProgressiveCollectAll(_, _)
ProgressiveCollectAll(acc, tool_calls) ==
    IF tool_calls = <<>> THEN acc
    ELSE ProgressiveCollectAll(ProgressiveCollect(acc, Head(tool_calls)),
                               Tail(tool_calls))

\* the raw tool_calls lists of stream deltas that the adapter standardizes
\* into chunk.tool_calls
RawToolCallLists ==
    {<<ToolCallStart>>,
     <<[id |-> "call_1", arguments |-> "{\"expression\": \"25*4+10\"}"]>>,
     <<[id |-> "call_2", name |-> "get_weather"]>>,
     <<[id |-> "call_2", arguments |-> "{\"location\": \"Tokyo\"}"]>>,
     <<[arguments |-> "{}"]>>,
     <<[id |-> "call_3", type |-> "function",
        function |-> [name |-> "calculate", arguments |-> "{\"expression\": \"1+1\"}"]],
       [id |-> "call_1", name |-> "calculate"]>>}

\* one iteration of the examples' "for chunk in provider.stream(messages)"
\* loops for a chunk with tool calls: each example runs its loop body on it
CollectToolCalls(raw_tool_calls) ==
    LET std == OpenAILike_standardize_tool_calls(raw_tool_calls)
        acc == ProgressiveCollectAll(
                   [states |-> tool_call_states, complete |-> complete_tool_calls],
                   std.value)
    IN  /\ ~std.raised
        /\ std.value # <<>>
        /\ tool_deltas' = Append(tool_deltas, std.value)
        /\ accumulated_tool_calls' =
               StreamingCollectAll(accumulated_tool_calls, std.value)
        /\ tool_call_states' = acc.states
        /\ complete_tool_calls' = acc.complete
        /\ UNCHANGED <<streamVars, execVars, utilVars>>

(***************************************************************************)
(* utils.execute_function_call and ToolExecutor.execute                    *)
(***************************************************************************)
\* A Python value: its type, its text when it is a str, its keys when it
\* is a dict.
PyStr(text) == [type |-> "str", text |-> text, keys |-> {}]
PyDict(keys) == [type |-> "dict", text |-> "", keys |-> keys]
PyList == [type |-> "list", text |-> "", keys |-> {}]
PyNone == [type |-> "NoneType", text |-> "", keys |-> {}]

\* bool(value)
Truthy(v) ==
    CASE v.type = "str" -> v.text # ""
      [] v.type = "dict" -> v.keys # {}
      [] v.type = "list" -> TRUE      \* the lists used as inputs are non-empty
      [] OTHER -> FALSE

\* the registry built by ToolExecutor.__init__ from examples/openai_like/common.py,
\* and the parameter names of each function (none has a default)
tools_by_name == {"calculate", "get_weather"}
Parameters(func) == IF func = "calculate" THEN {"expression"} ELSE {"location"}
available_tools == "calculate, get_weather"

\* json.loads on the argument strings used as inputs
json_loads(text) ==
    CASE text = "{}" -> [raised |-> FALSE, value |-> PyDict({})]
      [] text = "{\"expression\": \"25*4+10\"}" ->
             [raised |-> FALSE, value |-> PyDict({"expression"})]
      [] text = "{\"location\": \"Tokyo\"}" ->
             [raised |-> FALSE, value |-> PyDict({"location"})]
      [] text = "[1, 2]" -> [raised |-> FALSE, value |-> PyList]
      [] text = "null" -> [raised |-> FALSE, value |-> PyNone]
      [] OTHER -> [raised |-> TRUE, value |-> PyNone]   \* JSONDecodeError

ArgumentStrings ==
    {"{}", "{\"expression\": \"25*4+10\"}", "{\"location\": \"Tokyo\"}",
     "[1, 2]", "null", "{not json", ""}

\* what the body of a registered function does once its arguments are bound
ToolBehaviours == {"returns_str", "returns_float", "raises_ValueError", "raises_TypeError"}

\* the outcome of a call: a returned string (a sequence of its parts) or an
\* exception
Return(value) == [raised |-> FALSE, exc |-> None, value |-> value]
Raise(exc, message) == [raised |-> TRUE, exc |-> exc, value |-> message]

\* func(**args_dict)
CallFunction(func, args_dict, behaviour) ==
    IF args_dict.type # "dict"
    THEN Raise("TypeError", <<"argument after ** must be a mapping">>)
    ELSE IF args_dict.keys # Parameters(func)
    THEN Raise("TypeError", <<"missing or unexpected keyword argument">>)
    ELSE CASE behaviour = "returns_str" -> Return(<<"result of ", func>>)
           [] behaviour = "returns_float" -> Return(<<"110.0">>)
           [] behaviour = "raises_ValueError" -> Raise("ValueError", <<"Cannot evaluate expression">>)
           [] OTHER -> Raise("TypeError", <<"unsupported operand type">>)

\* utils.execute_function_call
execute_function_call(func, arguments, behaviour) ==
    LET parsed == IF arguments.type = "str"
                  THEN json_loads(arguments.text)
                  ELSE [raised |-> FALSE, value |-> arguments]
        called == CallFunction(func, parsed.value, behaviour)
    IN  IF parsed.raised
        THEN Raise("ToolExecutionError", <<"Invalid JSON arguments: ">>)
        ELSE IF ~called.raised
        THEN called     \* a str as it is, any other result through str()
        ELSE IF called.exc = "TypeError"
        THEN Raise("ToolExecutionError", <<"Invalid function arguments: ">> \o called.value)
        ELSE Raise("ToolExecutionError", <<"Function execution failed: ">> \o called.value)

\* mutant: the message does not name the tool
ToolNotFound_withoutName(tool_name) ==
    Return(<<"Error: Tool '", "' not found. Available tools: ", available_tools>>)

\* f"Error: Tool '{tool_name}' not found. Available tools: {available_tools}"
ToolNotFound(tool_name) ==
    Return(<<"Error: Tool '", tool_name, "' not found. Available tools: ",
             available_tools>>)

\* the body of the try block of ToolExecutor.execute; tool_call is
\* [is_dict, fields], fields the dict's items
execute_body(tool_call, behaviour) ==
    IF ~tool_call.is_dict
    THEN Return(<<"Error: Tool call must be a dictionary">>)
    ELSE
    LET tool_name == Get(tool_call.fields, "name", PyNone)
        tool_args == Get(tool_call.fields, "arguments", PyStr("{}"))
        tool_id == Get(tool_call.fields, "id", PyNone)
    IN  IF ~Truthy(tool_name)
        THEN Return(<<"Error: Missing tool name in tool call">>)
        ELSE IF ~Truthy(tool_id)
        THEN Return(<<"Error: Missing tool call ID">>)
        ELSE IF tool_name.type # "str"
        THEN \* tool_name not in self.tools_by_name, for a list
             Raise("TypeError", <<"unhashable type">>)
        ELSE IF tool_name.text \notin tools_by_name
        THEN ToolNotFound(tool_name.text)
        ELSE execute_function_call(tool_name.text, tool_args, behaviour)

\* mutant: only ToolExecutionError is caught
execute_catchToolErrorOnly(tool_call, behaviour) ==
    LET r == execute_body(tool_call, behaviour)
    IN  IF r.raised /\ r.exc = "ToolExecutionError"
        THEN Return(<<"Tool execution error: ">> \o r.value)
        ELSE r

\* ToolExecutor.execute: the try block with its two except clauses
execute(tool_call, behaviour) ==
    LET r == execute_body(tool_call, behaviour)
    IN  IF ~r.raised
        THEN r
        ELSE IF r.exc = "ToolExecutionError"
        THEN Return(<<"Tool execution error: ">> \o r.value)
        ELSE Return(<<"Unexpected error executing tool '">> \o r.value)

\* the values a tool call may carry under name, id and arguments; Absent
\* marks a key the dict does not have
Absent == [type |-> "absent", text |-> "", keys |-> {}]
NameValues ==
    {Absent, PyStr("calculate"), PyStr("get_weather"), PyStr("send_email"), PyStr(""), PyList}
IdValues == {Absent, PyStr("call_1"), PyStr("")}
ArgumentValues ==
    {Absent, PyDict({"expression"}), PyNone} \cup {PyStr(t) : t \in ArgumentStrings}

ToolCallDict(name, id, arguments) ==
    LET item == [name |-> name, id |-> id, arguments |-> arguments]
    IN  [is_dict |-> TRUE,
         fields |-> [k \in {k \in DOMAIN item : item[k] # Absent} |-> item[k]]]

\* the tool calls handed to execute: a value that is not a dict, and dicts
\* with any of the keys name, id, arguments
ToolCallInputs ==
    {[is_dict |-> FALSE, fields |-> <<>>]}
    \cup {ToolCallDict(n, i, a) : n \in NameValues, i \in IdValues, a \in ArgumentValues}

Execute(tool_call, behaviour) ==
    /\ exec_call' = tool_call
    /\ exec_behaviour' = behaviour
    /\ exec_result' = execute(tool_call, behaviour)
    /\ UNCHANGED <<streamVars, accumVars, utilVars>>

(***************************************************************************)
(* ToolExecutor.execute_all                                                *)
(***************************************************************************)
\* the body of "for tool_call in tool_calls", then the loop on the rest
RECURSIVE execute_all_loop(_, _, _)
execute_all_loop(tool_calls, behaviours, results) ==
    IF tool_calls = <<>>
    THEN Return(results)
    ELSE LET tool_call == Head(tool_calls)
             result_content == execute(tool_call, Head(behaviours))
         IN  IF result_content.raised
             THEN result_content
             ELSE IF ~tool_call.is_dict
             THEN \* tool_call.get on a value that is not a dict
                  Raise("AttributeError", <<"object has no attribute 'get'">>)
             ELSE execute_all_loop(
                      Tail(tool_calls), Tail(behaviours),
                      Append(results,
                             [role |-> "tool",
                              content |-> result_content.value,
                              tool_call_id |->
                                  Get(tool_call.fields, "id", PyStr("unknown"))]))

execute_all(tool_calls, behaviours) == execute_all_loop(tool_calls, behaviours, <<>>)

\* the tool calls of the batches handed to execute_all, one behaviour of the
\* registered function for each
BatchCalls ==
    {[is_dict |-> FALSE, fields |-> <<>>],
     ToolCallDict(PyStr("calculate"), PyStr("call_1"),
                  PyStr("{\"expression\": \"25*4+10\"}")),
     ToolCallDict(PyStr("get_weather"), PyStr("call_2"),
                  PyStr("{\"location\": \"Tokyo\"}")),
     ToolCallDict(PyStr("send_email"), PyStr("call_3"), PyStr("{}")),
     ToolCallDict(PyStr("calculate"), Absent, PyStr("{}")),
     ToolCallDict(PyStr("calculate"), PyStr("call_4"), PyStr("{not json"))}
BatchBehaviours == {"returns_str", "raises_ValueError"}

ExecuteAll(tool_calls, behaviours) ==
    /\ batch_calls' = tool_calls
    /\ batch_behaviours' = behaviours
    /\ batch_result' = execute_all(tool_calls, behaviours)
    /\ UNCHANGED <<streamVars, accumVars, execVars, validateVars, stdVars, extractVars, parseVars,
                   chatVars, sseVars>>

(***************************************************************************)
(* ToolExecutor.validate_tool_call                                         *)
(***************************************************************************)
\* the returned list holds one message, a sequence of its parts, per problem
validate_tool_call(tool_call) ==
    IF ~tool_call.is_dict
    THEN Return(<<(<<"Tool call must be a dictionary">>)>>)
    ELSE
    LET name == Get(tool_call.fields, "name", PyNone)
        id == Get(tool_call.fields, "id", PyNone)
        missing_name == IF ~Truthy(name) THEN <<(<<"Missing tool name">>)>> ELSE <<>>
        missing_id == IF ~Truthy(id) THEN <<(<<"Missing tool call ID">>)>> ELSE <<>>
    IN  IF Truthy(name) /\ name.type # "str"
        THEN \* tool_name not in self.tools_by_name, for a list
             Raise("TypeError", <<"unhashable type">>)
        ELSE IF Truthy(name) /\ name.text \notin tools_by_name
        THEN Return(missing_name \o missing_id
                    \o <<(<<"Tool '", name.text, "' not found. Available: ",
                            available_tools>>)>>)
        ELSE Return(missing_name \o missing_id)

ValidateToolCall(tool_call) ==
    /\ validate_call' = tool_call
    /\ validate_result' = validate_tool_call(tool_call)
    /\ UNCHANGED <<streamVars, accumVars, execVars, batchVars, stdVars, extractVars, parseVars,
                   chatVars, sseVars>>

(***************************************************************************)
(* _standardize_tool_calls of both adapters                                *)
(***************************************************************************)
\* The raw_tool_calls argument is [given, list]: given is FALSE for None.
NoToolCalls == [given |-> FALSE, list |-> <<>>]
ToolCallList(list) == [given |-> TRUE, list |-> list]

\* "if not raw_tool_calls: return []", then the loop
OpenAILike_standardize(raw_tool_calls) ==
    IF ~raw_tool_calls.given \/ raw_tool_calls.list = <<>>
    THEN Return(<<>>)
    ELSE OpenAILike_standardize_tool_calls(raw_tool_calls.list)

\* f"call_{len(standardized)}"
DefaultCallId(n) ==
    CASE n = 0 -> "call_0"
      [] n = 1 -> "call_1"
      [] n = 2 -> "call_2"
      [] OTHER -> "call_3"

\* json.dumps on the dicts used as toolUse inputs
json_dumps(value) ==
    CASE value.keys = {} -> "{}"
      [] value.keys = {"expression"} -> "{\"expression\": \"25*4+10\"}"
      [] OTHER -> "{\"location\": \"Tokyo\"}"

\* the body of Bedrock's "for tool_call in raw_tool_calls"; the arguments of
\* a Bedrock tool call are a Python value
RECURSIVE Bedrock_standardize_loop(_, _)
Bedrock_standardize_loop(raw_tool_calls, standardized) ==
    IF raw_tool_calls = <<>>
    THEN Return(standardized)
    ELSE LET tool_call == Head(raw_tool_calls) IN
         IF "toolUse" \in DOMAIN tool_call
         THEN LET tool_use == tool_call["toolUse"]
                  input == Get(tool_use, "input", PyDict({}))
              IN  Bedrock_standardize_loop(
                      Tail(raw_tool_calls),
                      Append(standardized,
                             [id |-> Get(tool_use, "toolUseId",
                                         DefaultCallId(Len(standardized))),
                              name |-> Get(tool_use, "name", None),
                              arguments |-> IF input.type = "dict"
                                            THEN PyStr(json_dumps(input))
                                            ELSE input]))
         ELSE \* an entry without toolUse is skipped
              Bedrock_standardize_loop(Tail(raw_tool_calls), standardized)

Bedrock_standardize(raw_tool_calls) ==
    IF ~raw_tool_calls.given
    THEN \* for tool_call in None
         Raise("TypeError", <<"'NoneType' object is not iterable">>)
    ELSE Bedrock_standardize_loop(raw_tool_calls.list, <<>>)

standardize_tool_calls(p, raw_tool_calls) ==
    IF p = "openai_like"
    THEN OpenAILike_standardize(raw_tool_calls)
    ELSE Bedrock_standardize(raw_tool_calls)

\* entries of the raw lists: provider-native tool calls, whole and partial,
\* and tool calls that are already canonical
OpenAIToolCalls ==
    {ToolCallStart,
     [id |-> "call_2", type |-> "function",
      function |-> [name |-> "get_weather", arguments |-> "{\"location\": \"Tokyo\"}"]],
     [id |-> "call_3", type |-> "function", function |-> [name |-> "calculate"]],
     ToolCallContinuation,
     [id |-> "call_1", name |-> "calculate", arguments |-> "{\"expression\": \"25*4+10\"}"],
     [id |-> "call_2", name |-> "get_weather", arguments |-> "{}"],
     [id |-> "call_1", arguments |-> "{}"]}

BedrockToolCalls ==
    {[toolUse |-> [toolUseId |-> "tooluse_1", name |-> "calculate",
                   input |-> PyDict({"expression"})]],
     [toolUse |-> [toolUseId |-> "tooluse_2", name |-> "get_weather",
                   input |-> PyDict({"location"})]],
     [toolUse |-> [name |-> "calculate", input |-> PyDict({})]],
     [toolUse |-> [toolUseId |-> "tooluse_3", name |-> "calculate"]],
     [toolUse |-> [toolUseId |-> "tooluse_4", input |-> PyStr("{not json")]],
     [text |-> "hi"],
     [id |-> "tooluse_1", name |-> "calculate",
      arguments |-> PyStr("{\"expression\": \"25*4+10\"}")]}

RawToolCalls(p) == IF p = "openai_like" THEN OpenAIToolCalls ELSE BedrockToolCalls

StandardizeToolCalls(p, raw_tool_calls) ==
    /\ std_provider' = p
    /\ std_input' = raw_tool_calls
    /\ std_result' = standardize_tool_calls(p, raw_tool_calls)
    /\ UNCHANGED <<streamVars, accumVars, execVars, batchVars, validateVars, extractVars, parseVars,
                   chatVars, sseVars>>

(***************************************************************************)
(* OpenAILike._extract_reasoning_content                                   *)
(***************************************************************************)
\* mutant: letters are compared without regard to case (re.IGNORECASE)
SameChar_ignoreCase(a, b) ==
    LET Lower(c) == CASE c = "T" -> "t" [] c = "H" -> "h" [] c = "I" -> "i"
                      [] c = "N" -> "n" [] c = "K" -> "k" [] OTHER -> c
    IN  Lower(a) = Lower(b)

\* a literal character of a pattern matches that character only: the
\* patterns are compiled with re.DOTALL and no other flag
SameChar(a, b) == a = b

\* mutant: "." does not match the first character of a tag
DotMatches_exceptAngle(c) == c # "<"

\* what "." matches under re.DOTALL: any character, newline included
DotMatches(c) == TRUE

\* the literal tag matches text at position i
MatchAt(tag, text, i) ==
    /\ i >= 1
    /\ i + Len(tag) - 1 <= Len(text)
    /\ \A k \in 1..Len(tag) : SameChar(tag[k], text[i + k - 1])

\* re.search(r'<w>(.*?)</w>', text, re.DOTALL): the leftmost opening tag that
\* has a closing tag after it, up to the first such closing tag
Search(w, text) ==
    LET open == OpenTag(w)
        close == CloseTag(w)
        Closes(i) == {j \in (i + Len(open))..Len(text) :
                         /\ MatchAt(close, text, j)
                         /\ \A k \in (i + Len(open))..(j - 1) : DotMatches(text[k])}
        starts == {i \in 1..Len(text) : MatchAt(open, text, i) /\ Closes(i) # {}}
    IN  IF starts = {}
        THEN [found |-> FALSE, start |-> 0, end |-> 0, group |-> <<>>]
        ELSE LET i == CHOOSE i \in starts : \A i2 \in starts : i <= i2
                 j == CHOOSE j \in Closes(i) : \A j2 \in Closes(i) : j <= j2
             IN  [found |-> TRUE, start |-> i, end |-> j + Len(close) - 1,
                  group |-> SubSeq(text, i + Len(open), j - 1)]

\* re.sub(r'<w>(.*?)</w>', '', text, flags=re.DOTALL): every match removed
RECURSIVE Sub(_, _)
Sub(w, text) ==
    LET match == Search(w, text)
    IN  IF ~match.found
        THEN text
        ELSE SubSeq(text, 1, match.start - 1)
             \o Sub(w, SubSeq(text, match.end + 1, Len(text)))

\* str.strip()
Whitespace == {" ", "\n", "\t"}
RECURSIVE Strip(_)
Strip(text) ==
    IF text = <<>> THEN text
    ELSE IF Head(text) \in Whitespace THEN Strip(Tail(text))
    ELSE IF Last(text) \in Whitespace THEN Strip(SubSeq(text, 1, Len(text) - 1))
    ELSE text

\* the returned tuple (final_content, reasoning_content); NoneText is None
Extracted(final_content, reasoning_content) ==
    [raised |-> FALSE, exc |-> None,
     final_content |-> final_content, reasoning_content |-> reasoning_content]

\* the extractor raises instead of returning
ExtractRaised(exc) ==
    [raised |-> TRUE, exc |-> exc, final_content |-> <<>>, reasoning_content |-> NoneText]

\* a content that is a non-empty list of content blocks, not a str
ListContent == <<"list">>

\* mutant: the tag patterns are listed in the opposite order
patterns_reversed == <<W_analysis, W_reasoning, W_thinking, W_think>>

\* the tag names of the list "patterns", in its order
patterns == <<W_think, W_thinking, W_reasoning, W_analysis>>

\* mutant: the native fields of the message are not looked at
NativeField_ignored(message) == "none"

\* Methods 1 and 2: the native field the extractor answers from
NativeField(message) ==
    IF "reasoning_content" \in DOMAIN message THEN "reasoning_content"
    ELSE IF "thinking" \in DOMAIN message THEN "thinking"
    ELSE "none"

\* mutant: the content returned with a native field has its <think> blocks
\* removed and is trimmed
NativeFieldResult_parsed(message, field) ==
    LET content == Get(message, "content", <<>>)
    IN  Extracted(IF content = NoneText THEN content ELSE Strip(Sub(W_think, content)),
                  message[field])

\* content = message.get('content', ''); reasoning = message.get(field)
NativeFieldResult(message, field) ==
    Extracted(Get(message, "content", <<>>), message[field])

\* mutant: the final content is returned as re.sub leaves it
FinalContent_untrimmed(w, full_content) == Sub(w, full_content)

\* re.sub(pattern, '', full_content, flags=flags).strip()
FinalContent(w, full_content) == Strip(Sub(w, full_content))

\* "for pattern, flags in patterns" from the n-th pattern on, then Method 4
\* and the final return, which both return (full_content, None)
RECURSIVE PatternExtraction(_, _)
PatternExtraction(n, full_content) ==
    IF n > Len(patterns)
    THEN Extracted(full_content, NoneText)
    ELSE LET match == Search(patterns[n], full_content)
         IN  IF match.found
             THEN Extracted(FinalContent(patterns[n], full_content), Strip(match.group))
             ELSE PatternExtraction(n + 1, full_content)

\* A response is [choices, message, usage]: choices is FALSE when the key is
\* absent or the list empty, message is choices[0]['message'], a dict.
OpenAILike_extract_reasoning_content(resp) ==
    IF ~resp.choices
    THEN Extracted(<<>>, NoneText)
    ELSE LET message == resp.message
             field == NativeField(message)
             full_content == Get(message, "content", <<>>)
         IN  IF field # "none"
             THEN NativeFieldResult(message, field)
             ELSE IF full_content = NoneText \/ full_content = <<>>
             THEN Extracted(<<>>, NoneText)
             ELSE IF full_content = ListContent
             THEN \* re.search on a value that is not a str
                  ExtractRaised("TypeError")
             ELSE PatternExtraction(1, full_content)

\* the texts used as message content
Block(w, inner) == OpenTag(w) \o inner \o CloseTag(w)
T_padded_block == <<" ">> \o Block(W_think, <<" ", "x", " ">>) \o <<" ">> \o T_hi \o <<"\n">>
T_multiline_block == <<"a">> \o Block(W_think, <<"x", "\n", "y">>) \o <<"b">>
T_upper_block == <<"<","T","H","I","N","K",">","x","<","/","T","H","I","N","K",">">>
T_mixed_block == <<"<","T","h","i","n","k",">","x">> \o CloseTag(W_think)
T_unclosed == OpenTag(W_think) \o T_x
T_reversed == CloseTag(W_think) \o T_x \o OpenTag(W_think)
T_two_think_blocks == Block(W_think, T_x) \o T_hi \o Block(W_think, T_t)
\* "<think>a<think>b</think>" and "<think>x</think>hi</think>"
T_two_openings == OpenTag(W_think) \o <<"a">> \o Block(W_think, <<"b">>)
T_two_closings == Block(W_think, T_x) \o T_hi \o CloseTag(W_think)
TwoBlocks(w1, w2) == Block(w1, <<"a">>) \o T_hi \o Block(w2, <<"b">>)
TagWords == {W_think, W_thinking, W_reasoning, W_analysis}

ExtractContents ==
    {<<>>, T_hi, T_whole_block, T_padded_block, T_multiline_block, T_upper_block,
     T_mixed_block, T_unclosed, T_reversed, T_two_think_blocks, T_two_openings,
     T_two_closings, ListContent}
    \cup {TwoBlocks(pair[1], pair[2]) :
              pair \in {q \in TagWords \X TagWords : q[1] # q[2]}}

\* AbsentText marks a key the message does not have
AbsentText == <<"absent">>
MessageDict(content, reasoning_content, thinking) ==
    LET item == [content |-> content, reasoning_content |-> reasoning_content,
                 thinking |-> thinking]
    IN  [k \in {k \in DOMAIN item : item[k] # AbsentText} |-> item[k]]

\* the responses handed to the extractor; reasoning_tokens is
\* usage.completion_tokens_details.reasoning_tokens, 0 when it is not reported
Responses ==
    {[choices |-> choices, message |-> MessageDict(content, reasoning_content, thinking),
      reasoning_tokens |-> reasoning_tokens] :
        choices \in BOOLEAN,
        content \in ExtractContents \cup {AbsentText, NoneText},
        reasoning_content \in {AbsentText, NoneText, T_r, <<" ", "r", " ">>},
        thinking \in {AbsentText, T_t},
        reasoning_tokens \in {0, 5}}

ExtractReasoningContent(resp) ==
    /\ extract_response' = resp
    /\ extract_result' = OpenAILike_extract_reasoning_content(resp)
    /\ UNCHANGED <<streamVars, accumVars, execVars, batchVars, validateVars, stdVars, parseVars,
                   chatVars, sseVars>>

(***************************************************************************)
(* _parse_response of both adapters                                        *)
(***************************************************************************)
\* ChatResponse(content, reasoning_content, reasoning_tokens, tool_calls);
\* reasoning_tokens 0 stands for None, tool_calls <<>> for None
ChatResponse(content, reasoning_content, reasoning_tokens, tool_calls) ==
    [content |-> content, reasoning_content |-> reasoning_content,
     reasoning_tokens |-> reasoning_tokens, tool_calls |-> tool_calls]

ParseReturned(chat_response) == [raised |-> FALSE, exc |-> None, response |-> chat_response]
ParseRaised(exc) ==
    [raised |-> TRUE, exc |-> exc, response |-> ChatResponse(<<>>, NoneText, 0, <<>>)]

\* the pydantic model declares content: str
Construct(content, reasoning_content, reasoning_tokens, tool_calls) ==
    IF content = NoneText \/ content = ListContent
    THEN ParseRaised("pydantic.ValidationError")
    ELSE ParseReturned(ChatResponse(content, reasoning_content, reasoning_tokens, tool_calls))

\* An OpenAI response is [shape, message, tool_calls, reasoning_tokens]:
\*   shape       no_choices (key absent), empty_choices, no_message (the
\*               first choice has no message key), message
\*   message     the items content, reasoning_content, thinking of the message
\*   tool_calls  message.get("tool_calls"): NoToolCalls when absent or null
OpenAILike_parse_response(resp, enable) ==
    CASE resp.shape = "no_choices" -> ParseRaised("KeyError")
      [] resp.shape = "empty_choices" -> ParseRaised("IndexError")
      [] resp.shape = "no_message" -> ParseRaised("KeyError")
      [] OTHER ->
         LET got == Get(resp.message, "content", NoneText)
             \* message.get("content") or ""
             content == IF got = NoneText THEN <<>> ELSE got
             std == OpenAILike_standardize(resp.tool_calls)
             ex == OpenAILike_extract_reasoning_content(
                       [choices |-> TRUE, message |-> resp.message,
                        reasoning_tokens |-> resp.reasoning_tokens])
         IN  IF std.raised THEN ParseRaised(std.exc)
             ELSE IF ~enable THEN Construct(content, NoneText, 0, std.value)
             ELSE IF ex.raised THEN ParseRaised(ex.exc)
             ELSE Construct(ex.final_content, ex.reasoning_content,
                            resp.reasoning_tokens, std.value)

\* "\n".join(parts)
RECURSIVE Join(_)
Join(parts) ==
    IF parts = <<>> THEN <<>>
    ELSE IF Len(parts) = 1 THEN Head(parts)
    ELSE Head(parts) \o <<"\n">> \o Join(Tail(parts))

\* the texts of the blocks that have the key, in order
RECURSIVE Parts(_, _)
Parts(blocks, key) ==
    IF blocks = <<>> THEN <<>>
    ELSE IF key \in DOMAIN Head(blocks) /\ (key = "text" \/ "text" \notin DOMAIN Head(blocks))
         THEN <<Head(blocks)[key]>> \o Parts(Tail(blocks), key)
         ELSE Parts(Tail(blocks), key)

\* A Bedrock response is [shape, content]: shape no_output, no_message or
\* message; content is message.get("content", []), [kind, list] with kind
\* absent, null or list. reasoningContent holds reasoningText.text.
ContentBlocks(resp) ==
    IF resp.shape = "message" /\ resp.content.kind # "absent"
    THEN resp.content
    ELSE [kind |-> "list", list |-> <<>>]

\* Bedrock._extract_reasoning_content
Bedrock_extract_reasoning_content(resp) ==
    LET content_blocks == ContentBlocks(resp)
        reasoning_parts == Parts(content_blocks.list, "reasoningContent")
    IN  IF content_blocks.kind = "null"
        THEN \* for block in None
             ExtractRaised("TypeError")
        ELSE Extracted(Join(Parts(content_blocks.list, "text")),
                       IF reasoning_parts = <<>> THEN NoneText ELSE Join(reasoning_parts))

RECURSIVE SelectToolUse(_)
SelectToolUse(blocks) ==
    IF blocks = <<>> THEN <<>>
    ELSE IF "toolUse" \in DOMAIN Head(blocks)
         THEN <<Head(blocks)>> \o SelectToolUse(Tail(blocks))
         ELSE SelectToolUse(Tail(blocks))

\* Bedrock._parse_response; enable_reasoning is not read
Bedrock_parse_response(resp, enable) ==
    LET ex == Bedrock_extract_reasoning_content(resp)
        std == Bedrock_standardize(ToolCallList(SelectToolUse(ContentBlocks(resp).list)))
    IN  IF ex.raised THEN ParseRaised(ex.exc)
        ELSE IF std.raised THEN ParseRaised(std.exc)
        ELSE Construct(ex.final_content, ex.reasoning_content,
                       IF ex.reasoning_content # NoneText THEN resp.reasoning_tokens ELSE 0,
                       std.value)

parse_response_of(p, resp, enable) ==
    IF p = "openai_like"
    THEN OpenAILike_parse_response(resp, enable)
    ELSE Bedrock_parse_response(resp, enable)

\* the responses handed to _parse_response
OpenAIResponses ==
    {[shape |-> shape, message |-> MessageDict(content, reasoning_content, AbsentText),
      tool_calls |-> tool_calls, reasoning_tokens |-> reasoning_tokens] :
        shape \in {"no_choices", "empty_choices", "no_message", "message"},
        content \in {AbsentText, NoneText, <<>>, T_hi, T_whole_block, ListContent},
        reasoning_content \in {AbsentText, T_r},
        tool_calls \in {NoToolCalls, ToolCallList(<<>>), ToolCallList(<<ToolCallStart>>),
                        ToolCallList(<<ToolCallContinuation>>)},
        reasoning_tokens \in {0, 5}}

BedrockBlockLists ==
    {<<>>, <<[text |-> T_hi]>>, <<[reasoningContent |-> T_r], [text |-> T_hi]>>,
     <<[text |-> T_hi], [text |-> T_x]>>,
     <<[toolUse |-> [toolUseId |-> "tooluse_1", name |-> "calculate",
                     input |-> PyDict({"expression"})]]>>,
     <<[text |-> T_hi],
       [toolUse |-> [toolUseId |-> "tooluse_1", name |-> "calculate",
                     input |-> PyDict({"expression"})]]>>}

BedrockResponses ==
    {[shape |-> shape, content |-> content, reasoning_tokens |-> reasoning_tokens] :
        shape \in {"no_output", "no_message", "message"},
        content \in {[kind |-> "absent", list |-> <<>>], [kind |-> "null", list |-> <<>>]}
                    \cup {[kind |-> "list", list |-> l] : l \in BedrockBlockLists},
        reasoning_tokens \in {0, 5}}

ProviderResponses(p) == IF p = "openai_like" THEN OpenAIResponses ELSE BedrockResponses

ParseResponse(p, resp, enable) ==
    /\ parse_provider' = p
    /\ parse_enable' = enable
    /\ parse_response' = resp
    /\ parse_result' = parse_response_of(p, resp, enable)
    /\ UNCHANGED <<streamVars, accumVars, execVars, batchVars, validateVars, stdVars,
                   extractVars, chatVars, sseVars>>

(***************************************************************************)
(* OpenAILike._execute_stream_request: the lines of the response           *)
(***************************************************************************)
\* A line is the sequence of its characters.
DataPrefix == <<"d", "a", "t", "a", ":", " ">>
DoneMarker == <<"[", "D", "O", "N", "E", "]">>

\* line.startswith(prefix)
StartsWith(line, prefix) ==
    Len(line) >= Len(prefix) /\ SubSeq(line, 1, Len(prefix)) = prefix

\* the payloads of the data lines used as inputs
P_empty_object == <<"{", "}">>
P_chunk == <<"{", "\"", "i", "d", "\"", ":", "1", "}">>
P_number == <<"7">>
P_truncated == <<"{", "\"", "i", "d">>

\* json.loads(data): the value for a JSON text, JSONDecodeError for any
\* other text, the empty one and "[DONE] " included
sse_json_loads(data) ==
    CASE data = P_empty_object -> [raised |-> FALSE, value |-> "{}"]
      [] data = P_chunk -> [raised |-> FALSE, value |-> "{'id': 1}"]
      [] data = P_number -> [raised |-> FALSE, value |-> "7"]
      [] OTHER -> [raised |-> TRUE, value |-> None]

SSELines ==
    {DataPrefix \o payload :
        payload \in {P_empty_object, P_chunk, P_number, P_truncated, <<>>,
                     DoneMarker, DoneMarker \o <<" ">>}}
    \cup {<<>>,
          <<":", " ", "k">>,
          <<"e", "v", "e", "n", "t", ":", " ", "x">>,
          <<"d", "a", "t", "a", ":">> \o P_chunk,
          <<" ">> \o DataPrefix \o P_chunk}

\* mutant: a payload that is not JSON ends the loop
AfterDecodeError_break(data) == "ended"

\* except json.JSONDecodeError: continue
AfterDecodeError(data) == "reading"

\* the request is sent and answered with status 200: the with block is
\* entered and the loop over response.iter_lines() starts
StreamRequest ==
    /\ sse_pc \in {"idle", "ended"}
    /\ sse_pc' = "reading"
    /\ sse_lines' = <<>>
    /\ sse_events' = <<>>
    /\ UNCHANGED <<streamVars, accumVars, execVars, batchVars, validateVars, stdVars,
                   extractVars, parseVars, chatVars>>

\* one iteration of "for line in response.iter_lines()"; iter_lines yields
\* str, so the bytes branch does not run
ReadLine(line) ==
    /\ sse_pc = "reading"
    /\ sse_lines' = Append(sse_lines, line)
    /\ IF line # <<>> /\ StartsWith(line, DataPrefix)
       THEN LET data == SubSeq(line, 7, Len(line))
                chunk == sse_json_loads(data)
            IN  IF data = DoneMarker
                THEN sse_pc' = "ended" /\ UNCHANGED sse_events
                ELSE IF chunk.raised
                THEN sse_pc' = AfterDecodeError(data) /\ UNCHANGED sse_events
                ELSE sse_pc' = "reading" /\ sse_events' = Append(sse_events, chunk.value)
       ELSE UNCHANGED <<sse_pc, sse_events>>
    /\ UNCHANGED <<streamVars, accumVars, execVars, batchVars, validateVars, stdVars,
                   extractVars, parseVars, chatVars>>

\* iter_lines is exhausted: the generator returns
LinesEnd ==
    /\ sse_pc = "reading"
    /\ sse_pc' = "ended"
    /\ UNCHANGED <<sse_lines, sse_events, streamVars, accumVars, execVars, batchVars,
                   validateVars, stdVars, extractVars, parseVars, chatVars>>

(***************************************************************************)
(* BaseProvider.chat and BaseProvider._handle_tool_calls                   *)
(***************************************************************************)
\* the tool calls of a parsed response are canonical dicts with str values:
\* one for a registered function and one, without an id, for a name that is
\* not in the registry
ChatToolCalls ==
    {[id |-> "call_1", name |-> "calculate", arguments |-> "{\"expression\": \"25*4+10\"}"],
     [name |-> "send_email", arguments |-> "{}"]}

\* what a registered function does when _handle_tool_calls calls it
ChatBehaviours == {"returns_str", "raises_ValueError"}

\* the ChatResponse objects _parse_response returns (content: str)
ParsedResponses ==
    {ChatResponse(T_hi, NoneText, 0, tool_calls) :
        tool_calls \in UNION {[1..n -> ChatToolCalls] : n \in 1..MaxCalls}}
    \cup {ChatResponse(content, NoneText, 0, <<>>) : content \in {<<>>, T_hi}}

\* one pass of "for tool_call in assistant_response.tool_calls": whether
\* execute_function_call was called, what it did, and the result string
NotCalled == [called |-> FALSE, outcome |-> Return(<<>>)]
ToolRun(tool_call, behaviour) ==
    LET tool_name == Get(tool_call, "name", None)
        tool_args == Get(tool_call, "arguments", "{}")
        outcome == execute_function_call(tool_name, PyStr(tool_args), behaviour)
    IN  IF tool_name \notin tools_by_name
        THEN [run |-> NotCalled,
              result |-> <<"Error: Tool '", tool_name, "' not found">>]
        ELSE [run |-> [called |-> TRUE, outcome |-> outcome],
              result |-> IF outcome.raised
                         THEN <<"Error executing ", tool_name, ": ">> \o outcome.value
                         ELSE outcome.value]

\* tool_result_msg
ToolResultMsg(tool_call, result) ==
    Dict([role |-> "tool", content |-> StrContent(result),
          tool_call_id |-> Get(tool_call, "id", None)])

\* assistant_msg; the key tool_calls is set when the list is not empty
AssistantMsg(assistant_response) ==
    IF assistant_response.tool_calls # <<>>
    THEN Dict([role |-> "assistant", content |-> StrContent(assistant_response.content),
               tool_calls |-> assistant_response.tool_calls])
    ELSE Dict([role |-> "assistant", content |-> StrContent(assistant_response.content)])

\* mutant: conversation is the caller's list itself
OriginalAfterAppends_aliased(original_messages, appended) == original_messages \o appended

\* conversation = original_messages.copy(): what original_messages holds
\* after the appends to conversation
OriginalAfterAppends(original_messages, appended) == original_messages

\* _handle_tool_calls up to the call of self.chat: the conversation it
\* builds, what became of original_messages and the tool runs
handle_tool_calls(original_messages, assistant_response, behaviours) ==
    LET tool_calls == assistant_response.tool_calls
        runs == [i \in 1..Len(tool_calls) |-> ToolRun(tool_calls[i], behaviours[i])]
        appended == <<AssistantMsg(assistant_response)>>
                    \o [i \in 1..Len(tool_calls) |-> ToolResultMsg(tool_calls[i], runs[i].result)]
    IN  [conversation |-> original_messages \o appended,
         original_messages |-> OriginalAfterAppends(original_messages, appended),
         runs |-> [i \in 1..Len(tool_calls) |-> runs[i].run]]

\* a chat call by the application, up to the point where _execute_request
\* has sent the request: validate_messages, then _prepare_request
Chat(messages) ==
    /\ chat_pc \in {"idle", "returned", "raised"}
    /\ LET validation == validate_messages(messages)
       IN  /\ chat_pc' = IF validation.raised THEN "raised" ELSE "awaiting"
           /\ chat_exc' = validation.exc
           /\ requests' = IF ReachesRequest(validation) THEN <<messages.items>> ELSE <<>>
    /\ chat_messages' = messages
    /\ caller_list' = messages.items
    /\ responses' = <<>>
    /\ invoked' = <<>>
    /\ chat_result' = ChatResponse(<<>>, NoneText, 0, <<>>)
    /\ UNCHANGED <<streamVars, accumVars, execVars, batchVars, validateVars, stdVars,
                   extractVars, parseVars, sseVars>>

\* _execute_request or _parse_response raises: chat has no handler
RequestRaises(exc) ==
    /\ chat_pc = "awaiting"
    /\ chat_pc' = "raised"
    /\ chat_exc' = exc
    /\ UNCHANGED <<chat_messages, caller_list, requests, responses, invoked, chat_result,
                   streamVars, accumVars, execVars, batchVars, validateVars, stdVars,
                   extractVars, parseVars, sseVars>>

\* the provider answers and _parse_response returns parsed_response: chat
\* returns it, or _handle_tool_calls runs the tools and calls self.chat with
\* the conversation, which validates it and sends the next request
ProviderResponds(parsed_response, behaviours) ==
    /\ chat_pc = "awaiting"
    /\ responses' = Append(responses, parsed_response)
    /\ IF parsed_response.tool_calls = <<>>
       THEN /\ chat_pc' = "returned"
            /\ chat_result' = parsed_response
            /\ UNCHANGED <<caller_list, requests, invoked, chat_exc>>
       ELSE LET h == handle_tool_calls(requests[Len(requests)], parsed_response, behaviours)
                validation == validate_messages(MessageList(h.conversation))
            IN  /\ invoked' = Append(invoked, h.runs)
                /\ caller_list' = IF Len(requests) = 1 THEN h.original_messages
                                   ELSE caller_list
                /\ chat_pc' = IF validation.raised THEN "raised" ELSE "awaiting"
                /\ chat_exc' = validation.exc
                /\ requests' = IF ReachesRequest(validation)
                               THEN Append(requests, h.conversation) ELSE requests
                /\ UNCHANGED chat_result
    /\ UNCHANGED <<chat_messages, streamVars, accumVars, execVars, batchVars, validateVars,
                   stdVars, extractVars, parseVars, sseVars>>

UtilIdle ==
    /\ sse_pc = "idle"
    /\ sse_lines = <<>>
    /\ sse_events = <<>>
    /\ chat_pc = "idle"
    /\ chat_messages = MessageList(<<>>)
    /\ caller_list = <<>>
    /\ requests = <<>>
    /\ responses = <<>>
    /\ invoked = <<>>
    /\ chat_result = ChatResponse(<<>>, NoneText, 0, <<>>)
    /\ chat_exc = None
    /\ parse_provider = "bedrock"
    /\ parse_enable = FALSE
    /\ parse_response = [shape |-> "no_output", content |-> [kind |-> "absent", list |-> <<>>],
                         reasoning_tokens |-> 0]
    /\ parse_result = ParseReturned(ChatResponse(<<>>, NoneText, 0, <<>>))
    /\ extract_response = [choices |-> FALSE, message |-> <<>>, reasoning_tokens |-> 0]
    /\ extract_result = Extracted(<<>>, NoneText)
    /\ std_provider = "openai_like"
    /\ std_input = ToolCallList(<<>>)
    /\ std_result = Return(<<>>)
    /\ batch_calls = <<>>
    /\ batch_behaviours = <<>>
    /\ batch_result = Return(<<>>)
    /\ validate_call = [is_dict |-> FALSE, fields |-> <<>>]
    /\ validate_result = Return(<<(<<"Tool call must be a dictionary">>)>>)

ExecIdle ==
    /\ exec_call = [is_dict |-> FALSE, fields |-> <<>>]
    /\ exec_behaviour = None
    /\ exec_result = Return(<<>>)

AccumEmpty ==
    /\ tool_deltas = <<>>
    /\ accumulated_tool_calls = <<>>
    /\ tool_call_states = <<>>
    /\ complete_tool_calls = <<>>

StreamIdle ==
    /\ pc = [s \in StreamIds |-> "idle"]
    /\ provider = [s \in StreamIds |-> "openai_like"]
    /\ enable_reasoning = [s \in StreamIds |-> FALSE]
    /\ transport = [s \in StreamIds |-> <<>>]
    /\ yielded = [s \in StreamIds |-> <<>>]
    /\ stream_messages = [s \in StreamIds |-> MessageList(<<UserMessage>>)]
    /\ requested = [s \in StreamIds |-> pc[s] # "idle"]
    /\ transport_failure = [s \in StreamIds |-> None]
    /\ stream_exc = [s \in StreamIds |-> None]

(***************************************************************************)
(* SpecSSE: streaming requests of one OpenAILike adapter, line by line     *)
(***************************************************************************)
InitSSE ==
    /\ in_reasoning_mode = FALSE
    /\ StreamIdle
    /\ AccumEmpty
    /\ ExecIdle
    /\ UtilIdle

NextSSE ==
    \/ StreamRequest
    \/ \E line \in SSELines : Len(sse_lines) < MaxLines /\ ReadLine(line)
    \/ LinesEnd

SpecSSE == InitSSE /\ [][NextSSE]_vars

(***************************************************************************)
(* SpecChat: chat calls made one after another on one adapter, with the    *)
(* tool rounds of _handle_tool_calls                                       *)
(***************************************************************************)
InitChat ==
    /\ in_reasoning_mode = FALSE
    /\ StreamIdle
    /\ AccumEmpty
    /\ ExecIdle
    /\ UtilIdle

\* the message lists of the calls: one that passes validate_messages and
\* one that does not
ChatMessageLists ==
    {MessageList(<<UserMessage, Dict([role |-> "assistant", content |-> StrContent(T_x)])>>),
     MessageList(<<Dict([role |-> "user"])>>)}

NextChat ==
    \/ \E messages \in ChatMessageLists : Chat(messages)
    \/ \E parsed_response \in ParsedResponses :
           \E behaviours \in [1..Len(parsed_response.tool_calls) -> ChatBehaviours] :
               /\ parsed_response.tool_calls # <<>> => Len(requests) <= MaxRounds
               /\ ProviderResponds(parsed_response, behaviours)
    \/ \E exc \in {"ProviderError", "KeyError"} : RequestRaises(exc)

SpecChat == InitChat /\ [][NextChat]_vars

(***************************************************************************)
(* SpecCalls: chat and chat_stream calls with any message list, each call  *)
(* followed to its first answer                                            *)
(***************************************************************************)
InitCalls ==
    /\ in_reasoning_mode = FALSE
    /\ StreamIdle
    /\ AccumEmpty
    /\ ExecIdle
    /\ UtilIdle

NextCalls ==
    \/ \E messages \in MessageLists : pc[1] = "idle" /\ chat_pc = "idle" /\ Chat(messages)
    \/ \E content \in {<<>>, T_hi} :
           ProviderResponds(ChatResponse(content, NoneText, 0, <<>>), <<>>)
    \/ \E p \in Providers, enable \in BOOLEAN, messages \in MessageLists :
           chat_pc = "idle" /\ pc[1] = "idle" /\ ChatStream(1, p, enable, messages)
    \/ \E chunk \in ProviderEvents(provider[1]) :
           /\ Len(transport[1]) < 1
           /\ NextChunk(1, chunk)
    \/ StreamEnd(1)

SpecCalls == InitCalls /\ [][NextCalls]_vars

(***************************************************************************)
(* Spec: chat_stream calls made one after another on one adapter of each   *)
(* class                                                                   *)
(***************************************************************************)
Init ==
    /\ in_reasoning_mode = FALSE
    /\ StreamIdle
    /\ AccumEmpty
    /\ ExecIdle
    /\ UtilIdle

\* the message lists of the calls: one that passes validate_messages and one
\* that does not
StreamMessageLists == {MessageList(<<UserMessage>>), MessageList(<<>>)}

\* a provider sends its stop marker (finish_reason, messageStop) at most once
\* per stream
MayDeliver(s, chunk) ==
    IsStopMarker(provider[s], chunk)
        => \A i \in 1..Len(transport[s]) : ~IsStopMarker(provider[s], transport[s][i])

Next ==
    \/ \E p \in Providers, enable \in BOOLEAN, messages \in StreamMessageLists :
           ChatStream(1, p, enable, messages)
    \/ \E chunk \in ProviderEvents(provider[1]) :
           /\ Len(transport[1]) < MaxEvents
           /\ MayDeliver(1, chunk)
           /\ NextChunk(1, chunk)
    \/ StreamEnd(1)
    \/ \E exc \in TransportErrors(provider[1]) : TransportFails(1, exc)
    \/ StatusError(1)

Spec == Init /\ [][Next]_vars

(***************************************************************************)
(* SpecInterleaved: two chat_stream calls on one OpenAILike adapter, both  *)
(* made before either is consumed, their chunks consumed in any order      *)
(***************************************************************************)
InitInterleaved ==
    /\ in_reasoning_mode = FALSE
    /\ pc = [s \in StreamIds |-> "running"]
    /\ provider = [s \in StreamIds |-> "openai_like"]
    /\ enable_reasoning = [s \in StreamIds |-> TRUE]
    /\ transport = [s \in StreamIds |-> <<>>]
    /\ yielded = [s \in StreamIds |-> <<>>]
    /\ stream_messages = [s \in StreamIds |-> MessageList(<<UserMessage>>)]
    /\ requested = [s \in StreamIds |-> pc[s] # "idle"]
    /\ transport_failure = [s \in StreamIds |-> None]
    /\ stream_exc = [s \in StreamIds |-> None]
    /\ AccumEmpty
    /\ ExecIdle
    /\ UtilIdle

NextInterleaved ==
    \E s \in StreamIds :
        \/ \E chunk \in InterleavedEvents :
               Len(transport[s]) < MaxInterleaved /\ NextChunk(s, chunk)
        \/ StreamEnd(s)

SpecInterleaved == InitInterleaved /\ [][NextInterleaved]_vars

(***************************************************************************)
(* SpecAccum: the examples' loops collect the tool calls of a stream       *)
(***************************************************************************)
InitAccum ==
    /\ in_reasoning_mode = FALSE
    /\ StreamIdle
    /\ AccumEmpty
    /\ ExecIdle
    /\ UtilIdle

NextAccum ==
    \E raw_tool_calls \in RawToolCallLists :
        Len(tool_deltas) < MaxDeltas /\ CollectToolCalls(raw_tool_calls)

SpecAccum == InitAccum /\ [][NextAccum]_vars

(***************************************************************************)
(* SpecExec: ToolExecutor.execute on any tool call                         *)
(***************************************************************************)
InitExec ==
    /\ in_reasoning_mode = FALSE
    /\ StreamIdle
    /\ AccumEmpty
    /\ ExecIdle
    /\ UtilIdle

NextExec ==
    \E tool_call \in ToolCallInputs, behaviour \in ToolBehaviours :
        Execute(tool_call, behaviour)

SpecExec == InitExec /\ [][NextExec]_vars

(***************************************************************************)
(* SpecExecAll: ToolExecutor.execute_all on any batch of tool calls        *)
(***************************************************************************)
Batches(S) == UNION {[1..n -> S] : n \in 0..MaxBatch}
ListsUpTo(S) == UNION {[1..n -> S] : n \in 0..MaxCalls}

InitExecAll ==
    /\ in_reasoning_mode = FALSE
    /\ StreamIdle
    /\ AccumEmpty
    /\ ExecIdle
    /\ UtilIdle

NextExecAll ==
    \E tool_calls \in Batches(BatchCalls) :
        \E behaviours \in [1..Len(tool_calls) -> BatchBehaviours] :
            ExecuteAll(tool_calls, behaviours)

SpecExecAll == InitExecAll /\ [][NextExecAll]_vars

(***************************************************************************)
(* SpecValidate: ToolExecutor.validate_tool_call on any tool call          *)
(***************************************************************************)
InitValidate ==
    /\ in_reasoning_mode = FALSE
    /\ StreamIdle
    /\ AccumEmpty
    /\ ExecIdle
    /\ UtilIdle

NextValidate == \E tool_call \in ToolCallInputs : ValidateToolCall(tool_call)

SpecValidate == InitValidate /\ [][NextValidate]_vars

(***************************************************************************)
(* SpecStandardize: _standardize_tool_calls of either adapter on any raw   *)
(* list, or on None                                                        *)
(***************************************************************************)
InitStandardize ==
    /\ in_reasoning_mode = FALSE
    /\ StreamIdle
    /\ AccumEmpty
    /\ ExecIdle
    /\ UtilIdle

NextStandardize ==
    \E p \in Providers :
        \E raw_tool_calls \in
               {NoToolCalls} \cup {ToolCallList(l) : l \in ListsUpTo(RawToolCalls(p))} :
            StandardizeToolCalls(p, raw_tool_calls)

SpecStandardize == InitStandardize /\ [][NextStandardize]_vars

(***************************************************************************)
(* SpecExtract: OpenAILike._extract_reasoning_content on any response      *)
(***************************************************************************)
InitExtract ==
    /\ in_reasoning_mode = FALSE
    /\ StreamIdle
    /\ AccumEmpty
    /\ ExecIdle
    /\ UtilIdle

NextExtract == \E resp \in Responses : ExtractReasoningContent(resp)

SpecExtract == InitExtract /\ [][NextExtract]_vars

(***************************************************************************)
(* SpecParse: _parse_response of either adapter on any response            *)
(***************************************************************************)
InitParse ==
    /\ in_reasoning_mode = FALSE
    /\ StreamIdle
    /\ AccumEmpty
    /\ ExecIdle
    /\ UtilIdle

NextParse ==
    \E p \in Providers, enable \in BOOLEAN :
        \E resp \in ProviderResponses(p) : ParseResponse(p, resp, enable)

SpecParse == InitParse /\ [][NextParse]_vars

(***************************************************************************)
(* Vocabulary of the properties                                            *)
(***************************************************************************)
\* the step is an iteration of stream s's for loop
StepOn(s) == pc[s] = "running" /\ Len(transport'[s]) = Len(transport[s]) + 1
\* the step yields a chunk on stream s
Emitted(s) == Len(yielded'[s]) = Len(yielded[s]) + 1

HasNative(ev) == ev.reasoning_content # NoneText \/ ev.thinking # NoneText
HasContent(ev) == ev.choices /\ ev.content # NoneText /\ ev.content # <<>>
HasOpening(ev) == ContainsAny(opening_tags, ev.content)
HasClosing(ev) == ContainsAny(closing_tags, ev.content)
TagFree(ev) == HasContent(ev) /\ ~HasNative(ev) /\ ~HasOpening(ev) /\ ~HasClosing(ev)

\* stream s is an OpenAILike stream with enable_reasoning on
PatternStream(s) == provider[s] = "openai_like" /\ enable_reasoning[s]

\* the chunks a stream yields when it is the only stream of a fresh adapter
RECURSIVE ConsumedAlone(_, _, _, _)
ConsumedAlone(p, enable, events, mode) ==
    IF events = <<>> THEN <<>>
    ELSE LET r == parse_stream_response(p, Head(events), enable, mode)
         IN  IF r.raised THEN <<>>
             ELSE <<r.chunk>> \o ConsumedAlone(p, enable, Tail(events), r.in_reasoning_mode)

\* the concatenation of the chunks' reasoning_delta, and of their delta
RECURSIVE AccumulatedReasoning(_)
AccumulatedReasoning(chunks) ==
    IF chunks = <<>> THEN <<>>
    ELSE (IF Head(chunks).reasoning_delta = NoneText
          THEN <<>> ELSE Head(chunks).reasoning_delta)
         \o AccumulatedReasoning(Tail(chunks))

RECURSIVE AccumulatedContent(_)
AccumulatedContent(chunks) ==
    IF chunks = <<>> THEN <<>>
    ELSE Head(chunks).delta \o AccumulatedContent(Tail(chunks))

(***************************************************************************)
(* C1 - SpecInterleaved. Each of two streams of one adapter, consumed      *)
(* interleaved with enable_reasoning on, yields exactly the chunks it      *)
(* yields when consumed alone.                                             *)
(***************************************************************************)
C1_StreamsIndependent ==
    \A s \in StreamIds :
        yielded[s] = ConsumedAlone("openai_like", TRUE, transport[s], FALSE)

(***************************************************************************)
(* C2 - Spec. The first tag-free content delta of a chat_stream call is    *)
(* emitted as content, whatever the earlier calls on the adapter left      *)
(* behind.                                                                 *)
(***************************************************************************)
C2_CallStartsNormal ==
    \A s \in StreamIds :
        (PatternStream(s) /\ Len(yielded[s]) >= 1 /\ TagFree(transport[s][1]))
        => /\ yielded[s][1].delta = transport[s][1].content
           /\ yielded[s][1].reasoning_delta = NoneText

(***************************************************************************)
(* C3 - Spec. As claimed: in NORMAL, every content delta with an opening   *)
(* tag (no native field) moves the stream to REASONING and is emitted with *)
(* an empty content delta, the whole delta in reasoning_delta.             *)
(***************************************************************************)
C3_OpeningTagEntersReasoning ==
    [][\A s \in StreamIds :
          (StepOn(s) /\ Emitted(s) /\ PatternStream(s) /\ ~in_reasoning_mode
             /\ HasContent(Last(transport'[s])) /\ ~HasNative(Last(transport'[s]))
             /\ HasOpening(Last(transport'[s])))
          => /\ in_reasoning_mode'
             /\ Last(yielded'[s]).delta = <<>>
             /\ Last(yielded'[s]).reasoning_delta = Last(transport'[s]).content]_vars

(***************************************************************************)
(* C3 amended - Spec. In NORMAL, a content delta with an opening tag and   *)
(* no closing tag moves the stream to REASONING and is emitted with an     *)
(* empty content delta; a delta with an opening and a closing tag leaves   *)
(* the stream in NORMAL and is emitted as content, is_reasoning_complete   *)
(* set.                                                                    *)
(***************************************************************************)
C3_OpeningTagWithoutClosing ==
    [][\A s \in StreamIds :
          (StepOn(s) /\ Emitted(s) /\ PatternStream(s) /\ ~in_reasoning_mode
             /\ HasContent(Last(transport'[s])) /\ ~HasNative(Last(transport'[s]))
             /\ HasOpening(Last(transport'[s])))
          => IF HasClosing(Last(transport'[s]))
             THEN /\ ~in_reasoning_mode'
                  /\ Last(yielded'[s]).delta = Last(transport'[s]).content
                  /\ Last(yielded'[s]).reasoning_delta = NoneText
                  /\ Last(yielded'[s]).is_reasoning_complete
             ELSE /\ in_reasoning_mode'
                  /\ Last(yielded'[s]).delta = <<>>
                  /\ Last(yielded'[s]).reasoning_delta = Last(transport'[s]).content
                  /\ ~Last(yielded'[s]).is_reasoning_complete]_vars

\* a tag-free delta was emitted as content (the stream was in NORMAL), then
\* a delta with an opening tag in mid-fragment went to reasoning_delta
C3_Witness ==
    /\ PatternStream(1) /\ Len(yielded[1]) = 2 /\ Len(transport[1]) = 2
    /\ TagFree(transport[1][1]) /\ yielded[1][1].delta = transport[1][1].content
    /\ transport[1][2] = ContentEvent(T_mid_open)
    /\ yielded[1][2].delta = <<>> /\ yielded[1][2].reasoning_delta = T_mid_open
    /\ in_reasoning_mode

(***************************************************************************)
(* C4 - Spec. In REASONING, a content delta with a closing tag moves the   *)
(* stream to NORMAL and its chunk has is_reasoning_complete; in NORMAL a   *)
(* tag-free delta is emitted as content and the stream stays in NORMAL.    *)
(***************************************************************************)
C4_ClosingTagLeavesReasoning ==
    [][\A s \in StreamIds :
          (StepOn(s) /\ Emitted(s) /\ PatternStream(s)
             /\ HasContent(Last(transport'[s])) /\ ~HasNative(Last(transport'[s])))
          => /\ (in_reasoning_mode /\ HasClosing(Last(transport'[s])))
                  => /\ ~in_reasoning_mode'
                     /\ Last(yielded'[s]).is_reasoning_complete
             /\ (~in_reasoning_mode /\ TagFree(Last(transport'[s])))
                  => /\ ~in_reasoning_mode'
                     /\ Last(yielded'[s]).delta = Last(transport'[s]).content
                     /\ Last(yielded'[s]).reasoning_delta = NoneText]_vars

\* reasoning was entered, a closing tag ended it, the next tag-free delta
\* came out as content
C4_Witness ==
    /\ PatternStream(1) /\ Len(yielded[1]) = 3 /\ Len(transport[1]) = 3
    /\ transport[1][1] = ContentEvent(OpenTag(W_think))
    /\ yielded[1][1].reasoning_delta = OpenTag(W_think)
    /\ transport[1][2] = ContentEvent(CloseTag(W_think))
    /\ yielded[1][2].is_reasoning_complete
    /\ TagFree(transport[1][3])
    /\ yielded[1][3].delta = transport[1][3].content
    /\ ~in_reasoning_mode

(***************************************************************************)
(* C5 - Spec. A delta with a native reasoning field (reasoning_content,    *)
(* else thinking) bypasses tag detection: the flag is unchanged,           *)
(* reasoning_delta is the native value, the content delta is emitted       *)
(* unchanged and is_reasoning_complete is false.                           *)
(***************************************************************************)
C5_NativeFieldBypassesTags ==
    [][\A s \in StreamIds :
          (StepOn(s) /\ Emitted(s) /\ PatternStream(s)
             /\ Last(transport'[s]).choices /\ HasNative(Last(transport'[s])))
          => /\ in_reasoning_mode' = in_reasoning_mode
             /\ Last(yielded'[s]).reasoning_delta =
                    (IF Last(transport'[s]).reasoning_content # NoneText
                     THEN Last(transport'[s]).reasoning_content
                     ELSE Last(transport'[s]).thinking)
             /\ Last(yielded'[s]).delta =
                    (IF Last(transport'[s]).content = NoneText
                     THEN <<>> ELSE Last(transport'[s]).content)
             /\ ~Last(yielded'[s]).is_reasoning_complete]_vars

\* in REASONING, a delta with a thinking field and a closing tag in its
\* content was emitted as content and left the stream in REASONING
C5_Witness ==
    /\ PatternStream(1) /\ Len(yielded[1]) = 2 /\ Len(transport[1]) = 2
    /\ transport[1][1] = ContentEvent(OpenTag(W_think))
    /\ yielded[1][1].reasoning_delta = OpenTag(W_think)
    /\ transport[1][2].thinking = T_t /\ HasClosing(transport[1][2])
    /\ yielded[1][2].reasoning_delta = T_t
    /\ yielded[1][2].delta = CloseTag(W_think)
    /\ in_reasoning_mode

(***************************************************************************)
(* C6 - Spec. The deltas "<thi", "nk>reasoning here</thi",                 *)
(* "nk>rest of answer" end with "reasoning here" in the accumulated        *)
(* reasoning_delta and "rest of answer" in the accumulated delta.          *)
(***************************************************************************)
C6_SplitTagsScenario ==
    \A s \in StreamIds :
        (PatternStream(s) /\ Len(yielded[s]) = 3
           /\ transport[s] = <<ContentEvent(T_split1), ContentEvent(T_split2),
                               ContentEvent(T_split3)>>)
        => /\ Contains(T_reasoning_here, AccumulatedReasoning(yielded[s]))
           /\ Contains(T_rest_of_answer, AccumulatedContent(yielded[s]))

(***************************************************************************)
(* C7 - Spec. As claimed: no chunk is yielded after a chunk with           *)
(* is_complete.                                                            *)
(***************************************************************************)
C7_NoChunkAfterComplete ==
    \A s \in StreamIds :
        \A i \in 1..Len(yielded[s]) :
            yielded[s][i].is_complete => i = Len(yielded[s])

(***************************************************************************)
(* C7 amended - Spec. A chunk with is_complete does not end the            *)
(* iteration: after every yielded chunk the generator is still running,    *)
(* and it finishes only on a step in which the transport delivers nothing  *)
(* more.                                                                   *)
(***************************************************************************)
C7_EndsOnlyWithTransport ==
    [][\A s \in StreamIds :
          /\ (pc[s] = "running" /\ Emitted(s)) => pc'[s] = "running"
          /\ (pc[s] = "running" /\ pc'[s] = "done")
                => (transport'[s] = transport[s] /\ yielded'[s] = yielded[s])]_vars

\* a chunk was yielded after the chunk that signalled termination
C7_Witness ==
    \E i \in 1..Len(yielded[1]) :
        /\ yielded[1][i].is_complete
        /\ i < Len(yielded[1])
        /\ Len(yielded[1]) = Len(transport[1])

(***************************************************************************)
(* C8 - Spec. chat_stream yields exactly one chunk per event the transport *)
(* has delivered, in the transport's order.                                *)
(***************************************************************************)
C8_OneChunkPerEvent ==
    \A s \in StreamIds :
        /\ Len(yielded[s]) = Len(transport[s])
        /\ \A i \in 1..Len(yielded[s]) :
               \E mode \in BOOLEAN :
                   LET r == parse_stream_response(provider[s], transport[s][i],
                                                  enable_reasoning[s], mode)
                   IN  ~r.raised /\ r.chunk = yielded[s][i]

(***************************************************************************)
(* C9 - SpecAccum. After any sequence of tool-call deltas the accumulator  *)
(* has one entry per distinct id seen, each entry is the key-by-key merge  *)
(* of the deltas with its id, and a tool call counts as complete exactly   *)
(* when its entry holds non-empty id, name and arguments.                  *)
(***************************************************************************)
RECURSIVE Flatten(_)
Flatten(lists) ==
    IF lists = <<>> THEN <<>> ELSE Head(lists) \o Flatten(Tail(lists))

RECURSIVE MergedById(_, _)
MergedById(id, deltas) ==
    IF deltas = <<>> THEN <<>>
    ELSE LET before == MergedById(id, SubSeq(deltas, 1, Len(deltas) - 1))
         IN  IF Get(Last(deltas), "id", "unknown") = id
             THEN Update(before, Last(deltas))
             ELSE before

HoldsNonEmpty(entry) ==
    \A key \in {"id", "name", "arguments"} :
        key \in DOMAIN entry /\ entry[key] \notin {"", None}

C9_OneEntryPerId ==
    LET deltas == Flatten(tool_deltas)
        seen == {Get(deltas[i], "id", "unknown") : i \in 1..Len(deltas)}
    IN  /\ DOMAIN tool_call_states = seen
        /\ Len(accumulated_tool_calls) = Cardinality(seen)
        /\ \A i, j \in 1..Len(accumulated_tool_calls) :
               Get(accumulated_tool_calls[i], "id", None)
                 = Get(accumulated_tool_calls[j], "id", None) => i = j

C9_MergedByKey ==
    LET deltas == Flatten(tool_deltas)
    IN  /\ \A id \in DOMAIN tool_call_states :
               tool_call_states[id] = MergedById(id, deltas)
        /\ \A i \in 1..Len(accumulated_tool_calls) :
               accumulated_tool_calls[i] =
                   MergedById(Get(accumulated_tool_calls[i], "id", "unknown"), deltas)

C9_CompleteWhenNonEmpty ==
    \A id \in DOMAIN tool_call_states :
        (\E i \in 1..Len(complete_tool_calls) : complete_tool_calls[i]["id"] = id)
        <=> HoldsNonEmpty(tool_call_states[id])

C9_AccumulateById ==
    C9_OneEntryPerId /\ C9_MergedByKey /\ C9_CompleteWhenNonEmpty

(***************************************************************************)
(* C10 - SpecExec. execute never raises: for every tool call it returns a  *)
(* string, and when the call fails (not a dict, missing name or id,        *)
(* unknown tool, arguments that are not a JSON object, argument names that *)
(* do not match the parameters, a function that raises) the string is an   *)
(* error description.                                                      *)
(***************************************************************************)
ErrorPrefixes ==
    {"Error: Tool call must be a dictionary", "Error: Missing tool name in tool call",
     "Error: Missing tool call ID", "Error: Tool '", "Tool execution error: ",
     "Unexpected error executing tool '"}

IsErrorDescription(string) == string # <<>> /\ Head(string) \in ErrorPrefixes

\* the failures the claim lists, read off the tool call and the function
FailingCall(tool_call, behaviour) ==
    \/ ~tool_call.is_dict
    \/ "name" \notin DOMAIN tool_call.fields
    \/ tool_call.fields["name"] = PyStr("")
    \/ "id" \notin DOMAIN tool_call.fields
    \/ tool_call.fields["id"] = PyStr("")
    \/ tool_call.fields["name"].type # "str"
    \/ tool_call.fields["name"].text \notin tools_by_name
    \/ LET arguments == Get(tool_call.fields, "arguments", PyStr("{}"))
           object == IF arguments.type = "str"
                     THEN json_loads(arguments.text)
                     ELSE [raised |-> FALSE, value |-> arguments]
       IN  \/ object.raised
           \/ object.value.type # "dict"
           \/ object.value.keys # Parameters(tool_call.fields["name"].text)
    \/ behaviour \in {"raises_ValueError", "raises_TypeError"}

C10_ExecuteNeverRaises ==
    exec_behaviour # None
    => /\ ~exec_result.raised
       /\ FailingCall(exec_call, exec_behaviour) => IsErrorDescription(exec_result.value)

\* a registered function was called with matching arguments and raised;
\* execute returned the error as a string
C10_Witness ==
    /\ exec_call = ToolCallDict(PyStr("calculate"), PyStr("call_1"),
                                PyStr("{\"expression\": \"25*4+10\"}"))
    /\ exec_behaviour = "raises_ValueError"
    /\ exec_result = Return(<<"Tool execution error: ", "Function execution failed: ",
                              "Cannot evaluate expression">>)

(***************************************************************************)
(* C11: execute_all on a sequence of N tool calls returns exactly N        *)
(* tool-role messages in input order, the i-th carrying the id of the i-th *)
(* call, also when some calls fail or are malformed: such a call yields    *)
(* its own error message and does not stop the calls after it.             *)
(***************************************************************************)
C11_OneMessagePerCall ==
    /\ ~batch_result.raised
    /\ Len(batch_result.value) = Len(batch_calls)
    /\ \A i \in 1..Len(batch_calls) :
           /\ batch_result.value[i].role = "tool"
           /\ batch_calls[i].is_dict /\ "id" \in DOMAIN batch_calls[i].fields
              => batch_result.value[i].tool_call_id = batch_calls[i].fields["id"]

(***************************************************************************)
(* C12: validate_tool_call returns an empty list exactly when execute      *)
(* would not reject the call on structural grounds (the call is a dict,    *)
(* has a name, has an id, names a registered tool, its arguments parse as  *)
(* a JSON object); validate_tool_call itself does not fail.                *)
(***************************************************************************)
\* execute turns the call down before the registered function is entered,
\* read off the string it returns
ExecuteRejects(tool_call) ==
    LET string == execute(tool_call, "returns_str").value
    IN  \/ Head(string) \in {"Error: Tool call must be a dictionary",
                             "Error: Missing tool name in tool call",
                             "Error: Missing tool call ID", "Error: Tool '",
                             "Unexpected error executing tool '"}
        \/ string = <<"Tool execution error: ", "Invalid JSON arguments: ">>
        \/ string = <<"Tool execution error: ", "Invalid function arguments: ",
                      "argument after ** must be a mapping">>

C12_ValidateAgreesWithExecute ==
    /\ ~validate_result.raised
    /\ validate_result.value = <<>> <=> ~ExecuteRejects(validate_call)

(***************************************************************************)
(* C13: for a tool call whose name is not in the registry, execute returns *)
(* an error string that mentions the name and does not raise.              *)
(***************************************************************************)
UnknownToolCall(tool_call) ==
    /\ tool_call.is_dict
    /\ "name" \in DOMAIN tool_call.fields
    /\ tool_call.fields["name"].type = "str"
    /\ tool_call.fields["name"].text # ""
    /\ tool_call.fields["name"].text \notin {"calculate", "get_weather"}

HasId(tool_call) ==
    /\ "id" \in DOMAIN tool_call.fields
    /\ Truthy(tool_call.fields["id"])

Mentions(string, name) == \E i \in 1..Len(string) : string[i] = name

\* as claimed: whatever the other fields are, a missing id included
C13_UnknownToolNamed ==
    exec_behaviour # None /\ UnknownToolCall(exec_call)
    => /\ ~exec_result.raised
       /\ IsErrorDescription(exec_result.value)
       /\ Mentions(exec_result.value, exec_call.fields["name"].text)

\* amended: when the call also carries a non-empty id, whatever its
\* arguments are
C13_UnknownToolNamedGivenId ==
    exec_behaviour # None /\ UnknownToolCall(exec_call) /\ HasId(exec_call)
    => /\ ~exec_result.raised
       /\ IsErrorDescription(exec_result.value)
       /\ Mentions(exec_result.value, exec_call.fields["name"].text)

\* an unknown tool called with an id and arguments that are not JSON
C13_Witness ==
    /\ exec_call = ToolCallDict(PyStr("send_email"), PyStr("call_1"), PyStr("{not json"))
    /\ exec_behaviour = "returns_str"
    /\ exec_result = Return(<<"Error: Tool '", "send_email",
                              "' not found. Available tools: ", "calculate, get_weather">>)

(***************************************************************************)
(* C14: standardizing is idempotent for both adapters: a list of           *)
(* already-canonical {id, name, arguments} tool calls comes back           *)
(* identical, so standardizing the result of standardizing any             *)
(* provider-native input gives that result again.                          *)
(***************************************************************************)
IsCanonical(tool_call) == DOMAIN tool_call = {"id", "name", "arguments"}

C14_StandardizeIdempotent ==
    /\ std_input.given /\ (\A i \in 1..Len(std_input.list) : IsCanonical(std_input.list[i]))
       => std_result = Return(std_input.list)
    /\ ~std_result.raised
       => standardize_tool_calls(std_provider, ToolCallList(std_result.value)) = std_result

(***************************************************************************)
(* C15: for both adapters, _standardize_tool_calls given an empty list or  *)
(* None returns an empty list and does not raise.                          *)
(***************************************************************************)
C15_EmptyInputEmptyOutput ==
    ~std_input.given \/ std_input.list = <<>>
    => std_result = Return(<<>>)

(***************************************************************************)
(* Vocabulary of the extractor's properties                                *)
(***************************************************************************)
\* the response has a message without native reasoning field and with content
TagParsed ==
    /\ extract_response.choices
    /\ "reasoning_content" \notin DOMAIN extract_response.message
    /\ "thinking" \notin DOMAIN extract_response.message
    /\ "content" \in DOMAIN extract_response.message
    /\ extract_response.message["content"] # NoneText

\* the response has a message with a native reasoning field
NativeAnswered ==
    /\ extract_response.choices
    /\ \/ "reasoning_content" \in DOMAIN extract_response.message
       \/ "thinking" \in DOMAIN extract_response.message

Priority(w) ==
    CASE w = W_think -> 1 [] w = W_thinking -> 2 [] w = W_reasoning -> 3 [] OTHER -> 4

Occurrences(tag, text) ==
    {i \in 1..(Len(text) - Len(tag) + 1) : SubSeq(text, i, i + Len(tag) - 1) = tag}

\* exactly one <think> and one </think>, the first before the second
OneThinkPair(text) ==
    /\ Cardinality(Occurrences(OpenTag(W_think), text)) = 1
    /\ Cardinality(Occurrences(CloseTag(W_think), text)) = 1
    /\ \E i \in Occurrences(OpenTag(W_think), text) :
           \E j \in Occurrences(CloseTag(W_think), text) : i + Len(OpenTag(W_think)) <= j

ThinkInterior(text) ==
    LET i == CHOOSE i \in Occurrences(OpenTag(W_think), text) : TRUE
        j == CHOOSE j \in Occurrences(CloseTag(W_think), text) : TRUE
    IN  SubSeq(text, i + Len(OpenTag(W_think)), j - 1)

ThinkRemoved(text) ==
    LET i == CHOOSE i \in Occurrences(OpenTag(W_think), text) : TRUE
        j == CHOOSE j \in Occurrences(CloseTag(W_think), text) : TRUE
    IN  SubSeq(text, 1, i - 1) \o SubSeq(text, j + Len(CloseTag(W_think)), Len(text))

(***************************************************************************)
(* C16: the extractor's strategies have a fixed priority and the first     *)
(* match wins: reasoning_content beats thinking, a native field beats tag  *)
(* parsing, the tags are tried in the order think, thinking, reasoning,    *)
(* analysis; of two blocks of different tag types only the one of higher   *)
(* priority is extracted, the other stays in final_content with its tags.  *)
(***************************************************************************)
C16_FixedPriority ==
    LET message == extract_response.message
    IN  /\ extract_response.choices /\ "reasoning_content" \in DOMAIN message
           => extract_result.reasoning_content = message["reasoning_content"]
        /\ /\ extract_response.choices
           /\ "reasoning_content" \notin DOMAIN message
           /\ "thinking" \in DOMAIN message
           => extract_result.reasoning_content = message["thinking"]
        /\ NativeAnswered /\ "content" \in DOMAIN message
           => extract_result.final_content = message["content"]
        /\ TagParsed
           => \A w1 \in TagWords : \A w2 \in TagWords \ {w1} :
                  message["content"] = TwoBlocks(w1, w2)
                  => extract_result =
                         IF Priority(w1) < Priority(w2)
                         THEN Extracted(T_hi \o Block(w2, <<"b">>), <<"a">>)
                         ELSE Extracted(Block(w1, <<"a">>) \o T_hi, <<"b">>)

\* an <analysis> block followed by a <think> block: the <think> block is
\* extracted, the <analysis> block stays
C16_Witness ==
    /\ extract_response.choices
    /\ extract_response.message = [content |-> TwoBlocks(W_analysis, W_think)]
    /\ extract_result = Extracted(Block(W_analysis, <<"a">>) \o T_hi, <<"b">>)

(***************************************************************************)
(* C17: for content with exactly one well-formed <think>...</think> pair   *)
(* and no native field, reasoning is the trimmed interior of the pair and  *)
(* final_content is the content with exactly that span removed, no         *)
(* character outside the tags lost, leading and trailing whitespace        *)
(* included.                                                               *)
(***************************************************************************)
C17_SpanRemovedOnly ==
    TagParsed /\ OneThinkPair(extract_response.message["content"])
    => extract_result =
           Extracted(ThinkRemoved(extract_response.message["content"]),
                     Strip(ThinkInterior(extract_response.message["content"])))

\* amended: final_content is the content with the span removed and then
\* trimmed of leading and trailing whitespace
C17_SpanRemovedAndTrimmed ==
    TagParsed /\ OneThinkPair(extract_response.message["content"])
    => extract_result =
           Extracted(Strip(ThinkRemoved(extract_response.message["content"])),
                     Strip(ThinkInterior(extract_response.message["content"])))

\* " <think> x </think> hi\n" gives ("hi", "x")
C17_Witness ==
    /\ TagParsed
    /\ extract_response.message["content"] = T_padded_block
    /\ extract_result = Extracted(T_hi, T_x)

(***************************************************************************)
(* C18: tag matching is case-insensitive and spans newlines: <THINK>x      *)
(* </THINK> or <Think>x</think> yield reasoning x and a final_content      *)
(* without the tagged span, the same as the lowercase pair.                *)
(***************************************************************************)
C18_CaseInsensitiveTags ==
    /\ TagParsed /\ extract_response.message["content"] \in {T_upper_block, T_mixed_block}
       => extract_result = Extracted(<<>>, T_x)
    /\ TagParsed /\ extract_response.message["content"] = T_multiline_block
       => extract_result = Extracted(<<"a", "b">>, <<"x", "\n", "y">>)

\* amended: matching is case-sensitive and spans newlines; a pair with an
\* upper-case letter in a tag is not recognised, the content comes back
\* unchanged with reasoning absent
C18_CaseSensitiveTags ==
    /\ TagParsed /\ extract_response.message["content"] \in {T_upper_block, T_mixed_block}
       => extract_result = Extracted(extract_response.message["content"], NoneText)
    /\ TagParsed /\ extract_response.message["content"] = T_multiline_block
       => extract_result = Extracted(<<"a", "b">>, <<"x", "\n", "y">>)

C18_Witness ==
    /\ TagParsed
    /\ extract_response.message["content"] = T_upper_block
    /\ extract_result = Extracted(T_upper_block, NoneText)

(***************************************************************************)
(* C19: for a response whose message content is the empty string the       *)
(* extractor returns the empty string as final_content and reports         *)
(* reasoning as absent, whatever other fields the response carries.        *)
(***************************************************************************)
EmptyContent ==
    /\ extract_response.choices
    /\ "content" \in DOMAIN extract_response.message
    /\ extract_response.message["content"] = <<>>

C19_EmptyContentNoReasoning ==
    EmptyContent => extract_result = Extracted(<<>>, NoneText)

\* amended: reasoning is absent when the message has no native reasoning
\* field; with one, the value of the field is returned as reasoning
C19_EmptyContentNativeOnly ==
    EmptyContent
    => /\ extract_result.final_content = <<>>
       /\ extract_result.reasoning_content =
              IF "reasoning_content" \in DOMAIN extract_response.message
              THEN extract_response.message["reasoning_content"]
              ELSE IF "thinking" \in DOMAIN extract_response.message
              THEN extract_response.message["thinking"]
              ELSE NoneText

\* empty content next to a native reasoning_content and a token count
C19_Witness ==
    /\ extract_response =
           [choices |-> TRUE, message |-> [content |-> <<>>, reasoning_content |-> T_r],
            reasoning_tokens |-> 5]
    /\ extract_result = Extracted(<<>>, T_r)

(***************************************************************************)
(* C20: for a response whose message carries a native reasoning field the  *)
(* extractor returns that field's value unchanged as reasoning and the     *)
(* message content unchanged as final_content: no tag removed, not         *)
(* trimmed, even when the content holds <think>...</think> blocks.         *)
(***************************************************************************)
C20_NativeFieldLeavesContent ==
    NativeAnswered
    => /\ extract_result.reasoning_content =
              IF "reasoning_content" \in DOMAIN extract_response.message
              THEN extract_response.message["reasoning_content"]
              ELSE extract_response.message["thinking"]
       /\ "content" \in DOMAIN extract_response.message
          => extract_result.final_content = extract_response.message["content"]

\* padded content with a <think> block next to an untrimmed native field
C20_Witness ==
    /\ extract_response.choices
    /\ extract_response.message =
           [content |-> T_padded_block, reasoning_content |-> <<" ", "r", " ">>]
    /\ extract_result = Extracted(T_padded_block, <<" ", "r", " ">>)

(***************************************************************************)
(* C21: when the opening and closing tag counts of a tag type do not match *)
(* (two <think> openings and one </think>, or an opening with no closing)  *)
(* the extractor does not raise, reports reasoning as absent and returns   *)
(* the content unmodified.                                                 *)
(***************************************************************************)
MismatchedThink(text) ==
    Cardinality(Occurrences(OpenTag(W_think), text))
        # Cardinality(Occurrences(CloseTag(W_think), text))

\* some opening tag of the type has a closing tag after it
HasPair(w, text) ==
    \E i \in Occurrences(OpenTag(w), text) :
        \E j \in Occurrences(CloseTag(w), text) : i + Len(OpenTag(w)) <= j

C21_MismatchedTagsLeftAlone ==
    /\ TagParsed
    /\ extract_response.message["content"] # ListContent
    /\ MismatchedThink(extract_response.message["content"])
    => extract_result = Extracted(extract_response.message["content"], NoneText)

\* amended: content in which no opening tag of any type has its closing tag
\* after it comes back unmodified with reasoning absent; when the counts
\* differ but an opening tag has a closing tag after it, the span from the
\* first such opening tag to the first closing tag after it is extracted
C21_NoPairLeftAlone ==
    /\ /\ TagParsed
       /\ extract_response.message["content"] # ListContent
       /\ \A w \in TagWords : ~HasPair(w, extract_response.message["content"])
       => extract_result = Extracted(extract_response.message["content"], NoneText)
    /\ TagParsed /\ extract_response.message["content"] = T_two_openings
       => extract_result = Extracted(<<>>, <<"a">> \o OpenTag(W_think) \o <<"b">>)
    /\ TagParsed /\ extract_response.message["content"] = T_two_closings
       => extract_result = Extracted(T_hi \o CloseTag(W_think), T_x)

\* an opening tag that is never closed
C21_Witness ==
    /\ TagParsed
    /\ extract_response.message["content"] = T_unclosed
    /\ extract_result = Extracted(T_unclosed, NoneText)

(***************************************************************************)
(* C22: parsing a non-streaming response never raises because a field is   *)
(* missing or malformed: for a response with no choices, an empty choices  *)
(* list, a choice without message, a message whose content is null or a    *)
(* message without tool_calls, _parse_response of either adapter returns a *)
(* ChatResponse, without reasoning and without tool calls where the        *)
(* message that would carry them is missing.                               *)
(***************************************************************************)
\* the response lacks its message
LacksMessage ==
    IF parse_provider = "openai_like"
    THEN parse_response.shape \in {"no_choices", "empty_choices", "no_message"}
    ELSE parse_response.shape \in {"no_output", "no_message"}

\* the message is there, its content is null or its tool calls are missing,
\* and nothing else is wrong with it
LacksField ==
    /\ parse_response.shape = "message"
    /\ IF parse_provider = "openai_like"
       THEN /\ parse_response.tool_calls \in {NoToolCalls, ToolCallList(<<>>)}
            /\ Get(parse_response.message, "content", NoneText)
                   \in {NoneText, <<>>, T_hi, T_whole_block}
       ELSE \/ parse_response.content.kind \in {"absent", "null"}
            \/ SelectToolUse(parse_response.content.list) = <<>>

C22_MissingFieldsTolerated ==
    /\ LacksMessage
       => parse_result = ParseReturned(ChatResponse(<<>>, NoneText, 0, <<>>))
    /\ LacksField
       => ~parse_result.raised /\ parse_result.response.tool_calls = <<>>

\* a list with a tool-role message that has no tool_call_id
HasToolWithoutId(messages) ==
    /\ messages.is_list
    /\ \E i \in 1..Len(messages.items) :
           LET message == messages.items[i]
           IN  /\ message.is_dict
               /\ "role" \in DOMAIN message.fields
               /\ message.fields["role"] = "tool"
               /\ "tool_call_id" \notin DOMAIN message.fields

ChatRejected ==
    chat_pc = "raised" /\ chat_exc = "ValidationError" /\ requests = <<>> /\ responses = <<>>

StreamRejected(s) ==
    /\ pc[s] = "rejected"
    /\ stream_exc[s] = "ValidationError"
    /\ ~requested[s]
    /\ transport[s] = <<>>
    /\ yielded[s] = <<>>

\* C23: validate_messages raises ValidationError for every message list
\* that contains a tool-role message without a tool_call_id, whether the
\* content of that message is a string or a list of content blocks; chat and
\* chat_stream accept no such list.
C23_ToolMessagesCarryId ==
    /\ \A messages \in {chat_messages} \cup {stream_messages[s] : s \in StreamIds} :
           HasToolWithoutId(messages) => validate_messages(messages).raised
    /\ (chat_pc # "idle" /\ HasToolWithoutId(chat_messages)) => ChatRejected
    /\ \A s \in StreamIds :
           (pc[s] # "idle" /\ HasToolWithoutId(stream_messages[s])) => StreamRejected(s)

\* C24: during chat no function of the adapter's tool registry is invoked,
\* and a response that contains tool calls is returned to the caller as data
\* after a single provider request.
C24_ToolsNeverExecuted ==
    /\ \A k \in 1..Len(invoked) : \A i \in 1..Len(invoked[k]) : ~invoked[k][i].called
    /\ Len(requests) <= 1
    /\ (responses # <<>> /\ responses[1].tool_calls # <<>>)
           => (chat_pc = "returned" /\ chat_result = responses[1])

\* C26: when validate_messages fails, chat and chat_stream raise
\* ValidationError without preparing or executing a provider request, with
\* no second attempt, and chat_stream yields no chunk.
C26_RejectedBeforeProvider ==
    /\ (chat_pc # "idle" /\ validate_messages(chat_messages).raised) => ChatRejected
    /\ \A s \in StreamIds :
           (pc[s] # "idle" /\ validate_messages(stream_messages[s]).raised)
               => StreamRejected(s)

C26_Witness ==
    /\ pc[1] = "rejected"
    /\ stream_messages[1].is_list
    /\ Len(stream_messages[1].items) = 2
    /\ validate_message(stream_messages[1].items[1]) = "ok"
    /\ validate_message(stream_messages[1].items[2]) # "ok"
    /\ provider[1] = "bedrock"

\* the tool-role message the tool round k appends for its call i
ToolMessageFor(k, i) == requests[k + 1][Len(requests[k]) + 1 + i]

ToolMessageAsClaimed(k, i) ==
    LET tool_call == responses[k].tool_calls[i]
        tool_name == Get(tool_call, "name", None)
        run == invoked[k][i]
        message == ToolMessageFor(k, i)
        text == message.fields["content"].text
    IN  /\ DOMAIN message.fields = {"role", "content", "tool_call_id"}
        /\ message.fields["role"] = "tool"
        /\ message.fields["tool_call_id"] = Get(tool_call, "id", None)
        /\ message.fields["content"].type = "str"
        /\ run.called <=> tool_name \in tools_by_name
        /\ IF ~run.called
           THEN text = <<"Error: Tool '", tool_name, "' not found">>
           ELSE IF run.outcome.raised
           THEN /\ Len(text) > 3
                /\ SubSeq(text, 1, 3) = <<"Error executing ", tool_name, ": ">>
           ELSE text = run.outcome.value

ChunkPerEvent(s) ==
    /\ Len(yielded[s]) = Len(transport[s])
    /\ \A i \in 1..Len(yielded[s]) :
           \E mode \in BOOLEAN :
               LET r == parse_stream_response(provider[s], transport[s][i],
                                              enable_reasoning[s], mode)
               IN  ~r.raised /\ r.chunk = yielded[s][i]

InputContent(ev) == IF ev.choices /\ ev.content # NoneText THEN ev.content ELSE <<>>

CarriedByOneOutput(ev, chunk) ==
    \/ chunk.delta = InputContent(ev) /\ chunk.reasoning_delta = NoneText
    \/ chunk.reasoning_delta = InputContent(ev) /\ chunk.delta = <<>>

RECURSIVE ConcatInputs(_)
ConcatInputs(events) ==
    IF events = <<>> THEN <<>>
    ELSE InputContent(Head(events)) \o ConcatInputs(Tail(events))

RECURSIVE ConcatOutputs(_)
ConcatOutputs(chunks) ==
    IF chunks = <<>> THEN <<>>
    ELSE Head(chunks).delta
         \o (IF Head(chunks).reasoning_delta = NoneText THEN <<>>
             ELSE Head(chunks).reasoning_delta)
         \o ConcatOutputs(Tail(chunks))

\* C27: in an OpenAILike stream with enable_reasoning on, every chunk made
\* from an event without a native reasoning field carries the event's content
\* delta in exactly one output, delta (reasoning_delta absent) or
\* reasoning_delta (delta empty); over a stream of such events the in-order
\* concatenation of all delta and reasoning_delta values equals the
\* concatenation of the content deltas of the events the chunks were made from.
C27_TextConserved ==
    \A s \in StreamIds :
        PatternStream(s)
        => LET n == Len(yielded[s])
               plain == \A i \in 1..n : ~HasNative(transport[s][i])
           IN  /\ \A i \in 1..n :
                      ~HasNative(transport[s][i])
                          => CarriedByOneOutput(transport[s][i], yielded[s][i])
               /\ plain => ConcatOutputs(yielded[s]) = ConcatInputs(SubSeq(transport[s], 1, n))

C27_Witness ==
    /\ PatternStream(1)
    /\ Len(yielded[1]) = 3
    /\ \A i \in 1..3 : ~HasNative(transport[1][i]) /\ InputContent(transport[1][i]) # <<>>
    /\ yielded[1][1].delta = <<>> /\ yielded[1][1].reasoning_delta = OpenTag(W_think)
    /\ yielded[1][2].delta = CloseTag(W_think) /\ yielded[1][2].reasoning_delta = NoneText
    /\ yielded[1][3].delta = T_hi /\ yielded[1][3].reasoning_delta = NoneText

\* C28: parsing a stream event does not raise for a tool-call delta:
\* OpenAILike returns a chunk for a fragment that has a function object but
\* no id, Bedrock returns a chunk for a contentBlockDelta event whose delta
\* is a toolUse fragment.
C28_ToolDeltasParse ==
    \A s \in StreamIds :
        \A i \in 1..Len(transport[s]) :
            LET ev == transport[s][i]
                fragment == IF provider[s] = "openai_like"
                            THEN \E j \in 1..Len(ev.tool_calls) :
                                     /\ "function" \in DOMAIN ev.tool_calls[j]
                                     /\ "id" \notin DOMAIN ev.tool_calls[j]
                            ELSE ev.kind = "contentBlockDelta" /\ ev.deltaKind = "toolUse"
            IN  fragment => (Len(yielded[s]) >= i /\ stream_exc[s] # "KeyError")
DoneLine == DataPrefix \o DoneMarker

\* a line that begins with "data: " and is not the [DONE] line
IsDataLine(line) == StartsWith(line, DataPrefix) /\ line # DoneLine
Payload(line) == SubSeq(line, Len(DataPrefix) + 1, Len(line))

\* C30: no event is yielded after the line "data: [DONE]" has been read; a
\* "data: " line whose payload is not valid JSON is skipped and the stream
\* goes on; empty lines and lines without the "data: " prefix are ignored;
\* every other data line yields exactly one event, in line order.
C30_LinesToEvents ==
    [][/\ sse_pc = "ended" /\ sse_pc' = "ended" => sse_events' = sse_events
       /\ Len(sse_lines') = Len(sse_lines) + 1
             => LET line == sse_lines'[Len(sse_lines')]
                IN  IF line = DoneLine
                    THEN sse_pc' = "ended" /\ sse_events' = sse_events
                    ELSE /\ sse_pc' = "reading"
                         /\ IF IsDataLine(line) /\ ~sse_json_loads(Payload(line)).raised
                            THEN sse_events' =
                                     Append(sse_events, sse_json_loads(Payload(line)).value)
                            ELSE sse_events' = sse_events]_vars

C30_Witness ==
    /\ sse_pc = "ended"
    /\ Len(sse_lines) = 3
    /\ sse_lines[1] = DataPrefix \o P_truncated
    /\ sse_lines[2] = DataPrefix \o P_chunk
    /\ sse_lines[3] = DoneLine
    /\ sse_events = <<"{'id': 1}">>
====
